---- MODULE Spec2Model ----
(***************************************************************************)
(* Model of the meshr half-edge mesh (src/src/mesh/half_edge.rs), of its   *)
(* polygon soup input (src/src/mesh/polygon_soup.rs), of the loose octree  *)
(* (src/src/spatial/octree.rs), of the OBJ reader                          *)
(* (src/src/mesh/wavefront.rs) and of the sphere/point and                 *)
(* triangle/triangle predicates (src/src/geometry/collision/intersects).   *)
(*                                                                         *)
(* Rust Vec<T> values are TLA+ sequences; handles stay 0-based as in the   *)
(* source, so element h of a Vec v is At(v, h) == v[h + 1].                *)
(* Option<usize>::None is the value None.                                  *)
(***************************************************************************)
EXTENDS Integers, Sequences, FiniteSets, TLC

VARIABLES soup, mesh, status, op, flips, merges, nodes, items, last, splits,
          reader

vars ==
    <<soup, mesh, status, op, flips, merges, nodes, items, last, splits,
      reader>>
meshVars == <<soup, mesh, status, op, flips, merges>>
octVars == <<nodes, items, last, splits>>
objVars == <<reader>>

\* ------------------------------------------------------------------ bounds
\* Faces a soup may hold.
MaxFaces == 3
\* flip_face calls applied to one mesh.
MaxFlips == 1
\* merge calls applied to one mesh.
MaxMerges == 1
\* Faces of a mesh that extract_faces is called on.
MaxExtract == 3
\* Items inserted into one octree.
MaxItems == 3
\* Direct calls of Octree::split on one octree.
MaxSplits == 1
\* Bits of a usize; the source runs with 64 (MAX_DEPTH 21), the model with
\* a word that gives MAX_DEPTH 2.
WordBits == 7
\* MAX_ITEMS_PER_NODE is 100 in the source; the model splits above 1.
MAX_ITEMS_PER_NODE == 1

\* Option::None of an Option<usize> handle.
None == -1

\* Vertex counts of the soups explored: with 3 vertices a face that names
\* vertex 3 is out of range, with 4 a soup that only uses 0..2 leaves
\* vertex 3 unused.
NVChoices == {3, 4}

\* Vertex lists of the faces a soup may receive: both orientations of a
\* triangle, neighbours across edge {0,1} that run with and against it, a
\* quad, a quad that meets it along {0,1} in the same direction and along
\* {2,3} in the opposite one, and an empty face.
FaceChoices ==
    { <<0, 1, 2>>, <<0, 2, 1>>, <<1, 0, 3>>, <<0, 1, 3>>, <<0, 1, 2, 3>>,
      <<3, 2, 0, 1>>, <<>> }

\* ----------------------------------------------------------------- helpers
At(v, i) == v[i + 1]

InRange(v, i) == i >= 0 /\ i < Len(v)

Min2(a, b) == IF a <= b THEN a ELSE b

Max2(a, b) == IF a >= b THEN a ELSE b

\* ------------------------------------------------------------ polygon soup
PolygonSoup_new ==
    [ vertices |-> <<>>, face_offsets |-> <<>>, face_vertices |-> <<>>,
      face_patches |-> <<>>, patches |-> <<>> ]

\* The position of the i-th vertex inserted: a distinct point per index.
Position(i) == i

soup_insert_vertex(s, position) ==
    [s EXCEPT !.vertices = Append(@, position)]

soup_insert_face(s, vertices, patch) ==
    [s EXCEPT !.face_offsets = Append(@, Len(s.face_vertices)),
              !.face_vertices = @ \o vertices,
              !.face_patches = Append(@, patch)]

soup_insert_patch(s, name) == [s EXCEPT !.patches = Append(@, name)]

soup_n_faces(s) == Len(s.face_offsets)

\* PolygonSoup::face: the slice of face_vertices between two offsets.
soup_face(s, index) ==
    LET start == At(s.face_offsets, index)
        end == IF index < soup_n_faces(s) - 1
               THEN At(s.face_offsets, index + 1)
               ELSE Len(s.face_vertices)
    IN  [ vertices |-> SubSeq(s.face_vertices, start + 1, end),
          patch |-> At(s.face_patches, index) ]

\* ---------------------------------------------------------- mesh building
HeMesh_default ==
    [ vertices |-> <<>>, faces |-> <<>>, half_edges |-> <<>>, patches |-> <<>> ]

insert_patch(m, name) ==
    [m EXCEPT !.patches = Append(@, [name |-> name])]

insert_vertex(m, origin) ==
    [m EXCEPT !.vertices = Append(@, [origin |-> origin, half_edge |-> 0])]

\* prev of the i-th half-edge of a block of nv starting at nh.
prev_index(nh, i, nv) == nh + ((i + nv - 1) % nv)

\* A next link computed with the offset of prev.
next_index_as_prev(nh, i, nv) == nh + ((i + nv - 1) % nv)

\* next of the i-th half-edge of a block of nv starting at nh.
next_index(nh, i, nv) == nh + ((i + nv + 1) % nv)

insert_face(m, vertices, patch) ==
    LET nh == Len(m.half_edges)
        nv == Len(vertices)
        face_id == Len(m.faces)
        block == [ k \in 1..nv |->
                     [ origin |-> vertices[k], face |-> face_id,
                       prev |-> prev_index(nh, k - 1, nv),
                       next |-> next_index(nh, k - 1, nv),
                       twin |-> None ] ]
    IN  [m EXCEPT !.faces = Append(@, [half_edge |-> nh, patch |-> patch]),
                  !.half_edges = @ \o block]

\* The side-table key of an undirected edge.
edge_key(vi, vj) == <<Min2(vi, vj), Max2(vi, vj)>>

\* A vertex anchor that is never moved off the placeholder.
anchor_vertex_skip(vertices, vi, i) == vertices

\* self.vertices[vi].half_edge = i
anchor_vertex(vertices, vi, i) ==
    [vertices EXCEPT ![vi + 1].half_edge = i]

\* First loop of build_links, from half-edge i on: anchors the origins and
\* fills the side table; stops at the third half-edge of a key, and aborts
\* when an origin is no index of the vertex array.
RECURSIVE build_index(_, _, _, _)
build_index(half_edges, vertices, index, i) ==
    IF i = Len(half_edges)
    THEN [result |-> "Ok", vertices |-> vertices, index |-> index]
    ELSE LET hi == At(half_edges, i)
             hj == At(half_edges, hi.next)
             vi == hi.origin
             vj == hj.origin
             edge == edge_key(vi, vj)
         IN  IF ~InRange(vertices, vi)
             THEN [result |-> "panic", vertices |-> vertices, index |-> index]
             ELSE IF edge \in DOMAIN index
             THEN IF Len(index[edge]) = 2
                  THEN [ result |-> "NonManifold",
                         vertices |-> anchor_vertex(vertices, vi, i),
                         index |-> index ]
                  ELSE build_index(half_edges, anchor_vertex(vertices, vi, i),
                                   [index EXCEPT ![edge] = Append(@, i)], i + 1)
             ELSE build_index(half_edges, anchor_vertex(vertices, vi, i),
                              index @@ (edge :> <<i>>), i + 1)

\* A pairing that sets the twin of the first handle only.
pair_twins_oneway(half_edges, shared) ==
    [half_edges EXCEPT ![shared[1] + 1].twin = shared[2]]

\* A pairing that writes the first handle into both twins.
pair_twins_same(half_edges, shared) ==
    [half_edges EXCEPT ![shared[1] + 1].twin = shared[1],
                       ![shared[2] + 1].twin = shared[1]]

\* Body of the second loop of build_links for a key with two handles.
pair_twins(half_edges, shared) ==
    [half_edges EXCEPT ![shared[1] + 1].twin = shared[2],
                       ![shared[2] + 1].twin = shared[1]]

\* Second loop of build_links: over the keys of the side table.
RECURSIVE link_twins(_, _, _)
link_twins(half_edges, index, keys) ==
    IF keys = {}
    THEN half_edges
    ELSE LET k == CHOOSE e \in keys : TRUE
             shared == index[k]
         IN  link_twins(IF Len(shared) = 2
                        THEN pair_twins(half_edges, shared)
                        ELSE half_edges,
                        index, keys \ {k})

build_links(m) ==
    LET r == build_index(m.half_edges, m.vertices, <<>>, 0)
    IN  IF r.result = "Ok"
        THEN [ result |-> "Ok",
               mesh |-> [m EXCEPT !.vertices = r.vertices,
                                  !.half_edges =
                                      link_twins(m.half_edges, r.index,
                                                 DOMAIN r.index)] ]
        ELSE [result |-> r.result, mesh |-> HeMesh_default]

RECURSIVE new_patches(_, _, _)
new_patches(m, s, i) ==
    IF i = Len(s.patches) THEN m
    ELSE new_patches(insert_patch(m, At(s.patches, i)), s, i + 1)

RECURSIVE new_vertices(_, _, _)
new_vertices(m, s, i) ==
    IF i = Len(s.vertices) THEN m
    ELSE new_vertices(insert_vertex(m, At(s.vertices, i)), s, i + 1)

RECURSIVE new_faces(_, _, _)
new_faces(m, s, i) ==
    IF i = soup_n_faces(s) THEN m
    ELSE LET f == soup_face(s, i)
         IN  new_faces(insert_face(m, f.vertices, f.patch), s, i + 1)

\* HeMesh::new: [result, mesh]; an Err or an abort returns no mesh.
HeMesh_new(s) ==
    build_links(new_faces(new_vertices(new_patches(HeMesh_default, s, 0), s, 0),
                          s, 0))

\* --------------------------------------------------------------- iterators
\* HeFaceHalfEdgeIter::next, run to its end: the handles yielded and how the
\* iteration ended ("done", "panic" on an index outside half_edges,
\* "diverge" when it can never return to init).
RECURSIVE face_iter(_, _, _, _, _, _)
face_iter(m, init, curr, count, acc, fuel) ==
    IF count # 0 /\ curr = init
    THEN [items |-> acc, outcome |-> "done"]
    ELSE IF ~InRange(m.half_edges, curr)
    THEN [items |-> acc, outcome |-> "panic"]
    ELSE IF fuel = 0
    THEN [items |-> acc, outcome |-> "diverge"]
    ELSE face_iter(m, init, At(m.half_edges, curr).next, count + 1,
                   Append(acc, curr), fuel - 1)

\* HeMesh::face_half_edges: HeFaceHalfEdgeIter::new(self, index).collect()
face_half_edges(m, index) ==
    IF ~InRange(m.faces, index)
    THEN [items |-> <<>>, outcome |-> "panic"]
    ELSE LET h == At(m.faces, index).half_edge
         IN  face_iter(m, h, h, 0, <<>>, Len(m.half_edges) + 1)

\* HeFaceVertexIter: the half-edge iterator mapped by origin.
face_vertices(m, index) ==
    LET r == face_half_edges(m, index)
    IN  [ items |-> [k \in 1..Len(r.items) |->
                        At(m.half_edges, r.items[k]).origin],
          outcome |-> r.outcome ]

\* HeFaceFaceIter: the faces across the half-edges that have a twin.
face_neighbors(m, index) ==
    LET r == face_half_edges(m, index)
        twinned == SelectSeq(r.items,
                             LAMBDA h : At(m.half_edges, h).twin # None)
    IN  [ items |-> [k \in 1..Len(twinned) |->
                        At(m.half_edges,
                           At(m.half_edges, twinned[k]).twin).face],
          outcome |-> r.outcome ]

\* The half-edge the vertex iterator looks across, taken along next.
step_handle_next(m, curr) == At(m.half_edges, curr).next

\* let prev = self.mesh.half_edges[curr].prev
step_handle(m, curr) == At(m.half_edges, curr).prev

\* An iteration that ends at the second return to the start only.
RECURSIVE vertex_iter_second_return(_, _, _, _, _, _)
vertex_iter_second_return(m, init, curr, count, acc, fuel) ==
    IF count # 0 /\ curr = init
          /\ Cardinality({k \in 1..Len(acc) : acc[k] = init}) > 1
    THEN [items |-> acc, outcome |-> "done"]
    ELSE IF ~InRange(m.half_edges, curr)
    THEN [items |-> acc, outcome |-> "panic"]
    ELSE LET prev == step_handle(m, curr)
             twin == At(m.half_edges, prev).twin
         IN  IF twin = None
             THEN [items |-> acc, outcome |-> "closed"]
             ELSE IF At(m.half_edges, twin).origin
                         # At(m.half_edges, init).origin
             THEN [items |-> acc, outcome |-> "oriented"]
             ELSE IF fuel = 0
             THEN [items |-> acc, outcome |-> "diverge"]
             ELSE vertex_iter_second_return(m, init, twin, count + 1,
                                            Append(acc, curr), fuel - 1)

\* HeVertexOHalfEdgeIter::next, run to its end: the handles yielded and how
\* the iteration ended: "done" (None), "closed" and "oriented" (the two
\* panics of the source), "panic" (an index outside half_edges), "diverge".
RECURSIVE vertex_iter(_, _, _, _, _, _)
vertex_iter(m, init, curr, count, acc, fuel) ==
    IF count # 0 /\ curr = init
    THEN [items |-> acc, outcome |-> "done"]
    ELSE IF ~InRange(m.half_edges, curr)
    THEN [items |-> acc, outcome |-> "panic"]
    ELSE LET prev == step_handle(m, curr)
             twin == At(m.half_edges, prev).twin
         IN  IF twin = None
             THEN [items |-> acc, outcome |-> "closed"]
             ELSE IF At(m.half_edges, twin).origin
                         # At(m.half_edges, init).origin
             THEN [items |-> acc, outcome |-> "oriented"]
             ELSE IF fuel = 0
             THEN [items |-> acc, outcome |-> "diverge"]
             ELSE vertex_iter(m, init, twin, count + 1, Append(acc, curr),
                              fuel - 1)

\* HeVertexOHalfEdgeIter::new(mesh, vertex) collected.
vertex_out_half_edges(m, vertex) ==
    IF ~InRange(m.vertices, vertex)
    THEN [items |-> <<>>, outcome |-> "panic"]
    ELSE LET h == At(m.vertices, vertex).half_edge
         IN  vertex_iter(m, h, h, 0, <<>>, Len(m.half_edges) + 1)

\* -------------------------------------------------------------- predicates
is_boundary(h) == h.twin = None

is_closed(m) ==
    \A k \in 1..Len(m.half_edges) : ~is_boundary(m.half_edges[k])

is_consistent(m) ==
    \A k \in 1..Len(m.half_edges) :
        LET h == m.half_edges[k]
        IN  ~is_boundary(h) => At(m.half_edges, h.twin).origin # h.origin

\* The scan of is_face_consistent over the half-edges of face j.
RECURSIVE face_consistent_scan(_, _, _, _)
face_consistent_scan(m, index, ks, n) ==
    IF n > Len(ks)
    THEN FALSE
    ELSE LET half_edge == At(m.half_edges, ks[n])
         IN  IF half_edge.twin # None /\ half_edge.twin \in index
             THEN At(m.half_edges, half_edge.twin).origin # half_edge.origin
             ELSE face_consistent_scan(m, index, ks, n + 1)

\* HeMesh::is_face_consistent: [outcome, value].
is_face_consistent(m, i, j) ==
    LET ri == face_half_edges(m, i)
        rj == face_half_edges(m, j)
    IN  IF ri.outcome # "done" THEN [outcome |-> ri.outcome, value |-> FALSE]
        ELSE IF rj.outcome # "done"
        THEN [outcome |-> rj.outcome, value |-> FALSE]
        ELSE [ outcome |-> "done",
               value |-> face_consistent_scan(
                             m, {ri.items[k] : k \in 1..Len(ri.items)},
                             rj.items, 1) ]

\* --------------------------------------------------------------- flip_face
\* A flip that swaps prev and next but leaves every origin in place.
flip_face_keep_origin(m, index) ==
    LET r == face_half_edges(m, index)
        ids == {r.items[k] : k \in 1..Len(r.items)}
    IN  IF r.outcome # "done"
        THEN [outcome |-> r.outcome, mesh |-> m]
        ELSE [ outcome |-> "done",
               mesh |-> [m EXCEPT !.half_edges =
                            [k \in 1..Len(m.half_edges) |->
                                IF (k - 1) \in ids
                                THEN [m.half_edges[k] EXCEPT
                                         !.prev = m.half_edges[k].next,
                                         !.next = m.half_edges[k].prev]
                                ELSE m.half_edges[k]]] ]

\* A flip that clears the twin links of the flipped half-edges.
flip_face_drop_twin(m, index) ==
    LET r == face_half_edges(m, index)
        half_edge_ids == r.items
        flipped(j) ==
            LET half_edge == At(m.half_edges, j)
            IN  [ origin |-> At(m.half_edges, half_edge.next).origin,
                  face |-> half_edge.face,
                  prev |-> half_edge.next,
                  next |-> half_edge.prev,
                  twin |-> None ]
        ids == {half_edge_ids[k] : k \in 1..Len(half_edge_ids)}
    IN  IF r.outcome # "done"
        THEN [outcome |-> r.outcome, mesh |-> m]
        ELSE [ outcome |-> "done",
               mesh |-> [m EXCEPT !.half_edges =
                            [k \in 1..Len(m.half_edges) |->
                                IF (k - 1) \in ids THEN flipped(k - 1)
                                ELSE m.half_edges[k]]] ]

\* HeMesh::flip_face: [outcome, mesh].
flip_face(m, index) ==
    LET r == face_half_edges(m, index)
        half_edge_ids == r.items
        flipped(j) ==
            LET half_edge == At(m.half_edges, j)
            IN  [ origin |-> At(m.half_edges, half_edge.next).origin,
                  face |-> half_edge.face,
                  prev |-> half_edge.next,
                  next |-> half_edge.prev,
                  twin |-> half_edge.twin ]
        ids == {half_edge_ids[k] : k \in 1..Len(half_edge_ids)}
    IN  IF r.outcome # "done"
        THEN [outcome |-> r.outcome, mesh |-> m]
        ELSE [ outcome |-> "done",
               mesh |-> [m EXCEPT !.half_edges =
                            [k \in 1..Len(m.half_edges) |->
                                IF (k - 1) \in ids THEN flipped(k - 1)
                                ELSE m.half_edges[k]]] ]

\* -------------------------------------------------------------- components
\* The while loop of components(): [visited, component, outcome].
RECURSIVE components_bfs(_, _, _, _)
components_bfs(m, visited, component, queue) ==
    IF queue = <<>>
    THEN [visited |-> visited, component |-> component, outcome |-> "done"]
    ELSE LET current == Head(queue)
         IN  IF ~At(visited, current)
             THEN LET visited2 == [visited EXCEPT ![current + 1] = TRUE]
                      nb == face_neighbors(m, current)
                  IN  IF nb.outcome # "done"
                      THEN [ visited |-> visited2,
                             component |-> Append(component, current),
                             outcome |-> nb.outcome ]
                      ELSE components_bfs(
                               m, visited2, Append(component, current),
                               Tail(queue) \o
                                   SelectSeq(nb.items,
                                             LAMBDA n : ~At(visited2, n)))
             ELSE components_bfs(m, visited, component, Tail(queue))

\* The for loop of components() from face index next on.
RECURSIVE components_from(_, _, _, _)
components_from(m, next, visited, components) ==
    IF next = Len(m.faces)
    THEN [components |-> components, outcome |-> "done"]
    ELSE IF At(visited, next)
    THEN components_from(m, next + 1, visited, components)
    ELSE LET r == components_bfs(m, visited, <<>>, <<next>>)
         IN  IF r.outcome # "done"
             THEN [components |-> components, outcome |-> r.outcome]
             ELSE components_from(m, next + 1, r.visited,
                                  Append(components, r.component))

\* HeMesh::components: [components, outcome].
components(m) ==
    components_from(m, 0, [k \in 1..Len(m.faces) |-> FALSE], <<>>)

\* ------------------------------------------------------------------ orient
\* if !oriented[current]  (the guard of the inner loop of orient)
inner_guard(oriented, current, neighbor) == ~At(oriented, current)

\* The for loop of orient over the neighbors of current, from the n-th on:
\* [mesh, queue, outcome].
RECURSIVE orient_neighbors(_, _, _, _, _, _)
orient_neighbors(m, oriented, queue, current, neighbors, n) ==
    IF n > Len(neighbors)
    THEN [mesh |-> m, queue |-> queue, outcome |-> "done"]
    ELSE LET neighbor == neighbors[n]
         IN  IF inner_guard(oriented, current, neighbor)
             THEN LET c == is_face_consistent(m, current, neighbor)
                      f == flip_face(m, neighbor)
                  IN  IF c.outcome # "done"
                      THEN [mesh |-> m, queue |-> queue, outcome |-> c.outcome]
                      ELSE IF c.value
                      THEN orient_neighbors(m, oriented,
                                            Append(queue, neighbor), current,
                                            neighbors, n + 1)
                      ELSE IF f.outcome # "done"
                      THEN [mesh |-> m, queue |-> queue, outcome |-> f.outcome]
                      ELSE orient_neighbors(f.mesh, oriented,
                                            Append(queue, neighbor), current,
                                            neighbors, n + 1)
             ELSE orient_neighbors(m, oriented, queue, current, neighbors,
                                   n + 1)

\* The while loop of orient: [mesh, oriented, outcome].
RECURSIVE orient_bfs(_, _, _)
orient_bfs(m, oriented, queue) ==
    IF queue = <<>>
    THEN [mesh |-> m, oriented |-> oriented, outcome |-> "done"]
    ELSE LET current == Head(queue)
         IN  IF ~At(oriented, current)
             THEN LET oriented2 == [oriented EXCEPT ![current + 1] = TRUE]
                      nb == face_neighbors(m, current)
                      r == orient_neighbors(m, oriented2, Tail(queue),
                                            current, nb.items, 1)
                  IN  IF nb.outcome # "done"
                      THEN [ mesh |-> m, oriented |-> oriented2,
                             outcome |-> nb.outcome ]
                      ELSE IF r.outcome # "done"
                      THEN [ mesh |-> r.mesh, oriented |-> oriented2,
                             outcome |-> r.outcome ]
                      ELSE orient_bfs(r.mesh, oriented2, r.queue)
             ELSE orient_bfs(m, oriented, Tail(queue))

\* The for loop of orient over the components, from the c-th on.
RECURSIVE orient_components(_, _, _, _)
orient_components(m, oriented, comps, c) ==
    IF c > Len(comps)
    THEN [mesh |-> m, oriented |-> oriented, outcome |-> "done"]
    ELSE LET r == orient_bfs(m, oriented, <<At(comps[c], 0)>>)
         IN  IF r.outcome # "done"
             THEN r
             ELSE orient_components(r.mesh, r.oriented, comps, c + 1)

\* HeMesh::orient: [mesh, oriented, outcome].
orient(m) ==
    LET oriented == [k \in 1..Len(m.faces) |-> FALSE]
        cs == components(m)
    IN  IF cs.outcome # "done"
        THEN [mesh |-> m, oriented |-> oriented, outcome |-> cs.outcome]
        ELSE orient_components(m, oriented, cs.components, 1)

\* ------------------------------------------------------------------- merge
\* First loop of merge: index_patches maps each name of self.patches to
\* its position; a later patch of the same name replaces the earlier entry.
RECURSIVE merge_index_self(_, _, _)
merge_index_self(patches, i, index) ==
    IF i = Len(patches) THEN index
    ELSE merge_index_self(patches, i + 1, (At(patches, i).name :> i) @@ index)

\* A patch loop that appends every patch of other, present or not.
RECURSIVE merge_patches_always(_, _, _, _)
merge_patches_always(patches, index, other_patches, k) ==
    IF k = Len(other_patches)
    THEN [patches |-> patches, index |-> index]
    ELSE LET patch == At(other_patches, k)
         IN  merge_patches_always(Append(patches, patch),
                                  (patch.name :> Len(patches)) @@ index,
                                  other_patches, k + 1)

\* Second loop of merge: a patch of other whose name is not indexed is
\* indexed at self.patches.len() and appended.
RECURSIVE merge_patches(_, _, _, _)
merge_patches(patches, index, other_patches, k) ==
    IF k = Len(other_patches)
    THEN [patches |-> patches, index |-> index]
    ELSE LET patch == At(other_patches, k)
         IN  IF patch.name \notin DOMAIN index
             THEN merge_patches(Append(patches, patch),
                                (patch.name :> Len(patches)) @@ index,
                                other_patches, k + 1)
             ELSE merge_patches(patches, index, other_patches, k + 1)

\* A half-edge copy whose twin is not shifted.
merge_half_edge_twin_kept(half_edge, offset_v, offset_f, offset_h) ==
    [ origin |-> half_edge.origin + offset_v,
      face |-> half_edge.face + offset_f,
      prev |-> half_edge.prev + offset_h,
      next |-> half_edge.next + offset_h,
      twin |-> half_edge.twin ]

\* The body of the half-edge loop of merge.
merge_half_edge(half_edge, offset_v, offset_f, offset_h) ==
    [ origin |-> half_edge.origin + offset_v,
      face |-> half_edge.face + offset_f,
      prev |-> half_edge.prev + offset_h,
      next |-> half_edge.next + offset_h,
      twin |-> IF half_edge.twin # None THEN half_edge.twin + offset_h
               ELSE None ]

\* HeMesh::merge: [outcome, mesh]; "panic" when a face of other names a
\* patch that other does not have.
merge(self, other) ==
    LET index_self == merge_index_self(self.patches, 0, <<>>)
        merged == merge_patches(self.patches, index_self, other.patches, 0)
        index_patches == merged.index
        offset_v == Len(self.vertices)
        offset_f == Len(self.faces)
        offset_h == Len(self.half_edges)
        vertices ==
            [k \in 1..Len(other.vertices) |->
                [other.vertices[k] EXCEPT !.half_edge = @ + offset_h]]
        faces ==
            [k \in 1..Len(other.faces) |->
                [ half_edge |-> other.faces[k].half_edge + offset_h,
                  patch |->
                      IF other.faces[k].patch = None THEN None
                      ELSE index_patches[
                               At(other.patches, other.faces[k].patch).name] ]]
        half_edges ==
            [k \in 1..Len(other.half_edges) |->
                merge_half_edge(other.half_edges[k],
                                offset_v, offset_f, offset_h)]
    IN  IF \E k \in 1..Len(other.faces) :
              /\ other.faces[k].patch # None
              /\ ~InRange(other.patches, other.faces[k].patch)
        THEN [ outcome |-> "panic",
               mesh |-> [self EXCEPT !.patches = merged.patches,
                                     !.vertices = @ \o vertices] ]
        ELSE [ outcome |-> "done",
               mesh |-> [ vertices |-> self.vertices \o vertices,
                          faces |-> self.faces \o faces,
                          half_edges |-> self.half_edges \o half_edges,
                          patches |-> merged.patches ] ]

\* ----------------------------------------------------------- extract_faces
\* The loop of extract_faces over the vertices of one face, from the k-th
\* on: a vertex not yet indexed is inserted and indexed at its new position;
\* [mesh, index, vertices, outcome].
RECURSIVE extract_vertices(_, _, _, _, _)
extract_vertices(self, mesh_, index_vertices, vertices, k) ==
    IF k > Len(vertices)
    THEN [ mesh |-> mesh_, index |-> index_vertices, vertices |-> vertices,
           outcome |-> "done" ]
    ELSE LET vertex_id == vertices[k]
         IN  IF vertex_id \in DOMAIN index_vertices
             THEN extract_vertices(
                      self, mesh_, index_vertices,
                      [vertices EXCEPT ![k] = index_vertices[vertex_id]],
                      k + 1)
             ELSE IF ~InRange(self.vertices, vertex_id)
             THEN [ mesh |-> mesh_, index |-> index_vertices,
                    vertices |-> vertices, outcome |-> "panic" ]
             ELSE LET inserted ==
                          insert_vertex(mesh_,
                                        At(self.vertices, vertex_id).origin)
                      index2 == (vertex_id :> Len(inserted.vertices) - 1)
                                    @@ index_vertices
                  IN  extract_vertices(
                          self, inserted, index2,
                          [vertices EXCEPT ![k] = index2[vertex_id]], k + 1)

\* The patch of one extracted face: a patch not yet indexed is inserted by
\* name and indexed at its new position; [mesh, index, patch, outcome].
extract_patch(self, mesh_, index_patches, patch_id) ==
    IF patch_id = None
    THEN [ mesh |-> mesh_, index |-> index_patches, patch |-> None,
           outcome |-> "done" ]
    ELSE IF patch_id \in DOMAIN index_patches
    THEN [ mesh |-> mesh_, index |-> index_patches,
           patch |-> index_patches[patch_id], outcome |-> "done" ]
    ELSE IF ~InRange(self.patches, patch_id)
    THEN [ mesh |-> mesh_, index |-> index_patches, patch |-> None,
           outcome |-> "panic" ]
    ELSE LET inserted == insert_patch(mesh_, At(self.patches, patch_id).name)
             index2 == (patch_id :> Len(inserted.patches) - 1)
                           @@ index_patches
         IN  [ mesh |-> inserted, index |-> index2,
               patch |-> index2[patch_id], outcome |-> "done" ]

\* The loop of extract_faces over the listed faces, from the n-th on:
\* [mesh, outcome].
RECURSIVE extract_loop(_, _, _, _, _, _)
extract_loop(self, mesh_, index_vertices, index_patches, faces, n) ==
    IF n > Len(faces)
    THEN [mesh |-> mesh_, outcome |-> "done"]
    ELSE LET face_id == faces[n]
             fv == face_vertices(self, face_id)
             ev == extract_vertices(self, mesh_, index_vertices, fv.items, 1)
             ep == extract_patch(self, ev.mesh, index_patches,
                                 At(self.faces, face_id).patch)
         IN  IF fv.outcome # "done"
             THEN [mesh |-> mesh_, outcome |-> fv.outcome]
             ELSE IF ev.outcome # "done"
             THEN [mesh |-> ev.mesh, outcome |-> ev.outcome]
             ELSE IF ep.outcome # "done"
             THEN [mesh |-> ep.mesh, outcome |-> ep.outcome]
             ELSE extract_loop(
                      self, insert_face(ep.mesh, ev.vertices, ep.patch),
                      ev.index, ep.index, faces, n + 1)

\* HeMesh::extract_faces: [mesh, outcome]; build_links().unwrap() aborts on
\* Err(NonManifold).
extract_faces(self, faces) ==
    LET r == extract_loop(self, HeMesh_default, <<>>, <<>>, faces, 1)
        b == build_links(r.mesh)
    IN  IF r.outcome # "done" THEN r
        ELSE IF b.result # "Ok"
        THEN [mesh |-> r.mesh, outcome |-> "panic"]
        ELSE [mesh |-> b.mesh, outcome |-> "done"]

\* ------------------------------------------------------------- mesh machine
\* A soup of n vertices and no face.
RECURSIVE soup_of_vertices(_)
soup_of_vertices(n) ==
    IF n = 0 THEN PolygonSoup_new
    ELSE soup_insert_vertex(soup_of_vertices(n - 1), Position(n - 1))

\* An operation that panicked or cannot return ends the run.
Ended(outcome) == IF outcome = "done" THEN "Ok" ELSE outcome

InitReaderIdle == reader = [name |-> "idle"]

InitOctreeIdle ==
    /\ nodes = <<>>
    /\ items = <<>>
    /\ last = [name |-> "idle"]
    /\ splits = 0

InitMesh ==
    /\ soup \in {soup_of_vertices(n) : n \in NVChoices}
    /\ mesh = HeMesh_default
    /\ status = "soup"
    /\ op = [name |-> "none"]
    /\ flips = 0
    /\ merges = 0

\* PolygonSoup::insert_face
SoupInsertFace ==
    /\ status = "soup"
    /\ soup_n_faces(soup) < MaxFaces
    /\ \E f \in FaceChoices : soup' = soup_insert_face(soup, f, None)
    /\ UNCHANGED <<mesh, status, op, flips, merges, octVars, objVars>>

\* HeMesh::new(&soup)
New ==
    /\ status = "soup"
    /\ LET r == HeMesh_new(soup)
       IN  /\ status' = r.result
           /\ mesh' = r.mesh
    /\ op' = [name |-> "new"]
    /\ UNCHANGED <<soup, flips, merges, octVars, objVars>>

\* mesh.flip_face(f)
FlipFace ==
    /\ status = "Ok"
    /\ flips < MaxFlips
    /\ \E f \in 0..(Len(mesh.faces) - 1) :
          LET r == flip_face(mesh, f)
          IN  /\ mesh' = r.mesh
              /\ status' = Ended(r.outcome)
              /\ op' = [name |-> "flip_face", face |-> f, before |-> mesh]
    /\ flips' = flips + 1
    /\ UNCHANGED <<soup, merges, octVars, objVars>>

\* mesh.orient()
Orient ==
    /\ status = "Ok"
    /\ LET r == orient(mesh)
       IN  /\ mesh' = r.mesh
           /\ status' = Ended(r.outcome)
           /\ op' = [name |-> "orient", oriented |-> r.oriented,
                     before |-> mesh]
    /\ UNCHANGED <<soup, flips, merges, octVars, objVars>>

\* HeVertexOHalfEdgeIter::new(&mesh, v) driven until it ends
VertexOut ==
    /\ status = "Ok"
    /\ \E v \in 0..(Len(mesh.vertices) - 1) :
          LET r == vertex_out_half_edges(mesh, v)
          IN  /\ status' = Ended(r.outcome)
              /\ op' = [name |-> "vertex_out", vertex |-> v,
                        items |-> r.items, outcome |-> r.outcome]
    /\ UNCHANGED <<soup, mesh, flips, merges, octVars, objVars>>

\* HeFaceHalfEdgeIter::new(&mesh, f) driven until it ends
FaceIter ==
    /\ status = "Ok"
    /\ \E f \in 0..(Len(mesh.faces) - 1) :
          LET r == face_half_edges(mesh, f)
          IN  /\ status' = Ended(r.outcome)
              /\ op' = [name |-> "face_half_edges", face |-> f,
                        items |-> r.items, outcome |-> r.outcome]
    /\ UNCHANGED <<soup, mesh, flips, merges, octVars, objVars>>

\* mesh.components()
Components ==
    /\ status = "Ok"
    /\ LET r == components(mesh)
       IN  /\ status' = Ended(r.outcome)
           /\ op' = [name |-> "components", components |-> r.components,
                     outcome |-> r.outcome]
    /\ UNCHANGED <<soup, mesh, flips, merges, octVars, objVars>>

\* mesh.is_face_consistent(i, j)
FaceConsistent ==
    /\ status = "Ok"
    /\ \E i, j \in 0..(Len(mesh.faces) - 1) :
          LET r == is_face_consistent(mesh, i, j)
          IN  /\ status' = Ended(r.outcome)
              /\ op' = [name |-> "is_face_consistent", i |-> i, j |-> j,
                        value |-> r.value, outcome |-> r.outcome]
    /\ UNCHANGED <<soup, mesh, flips, merges, octVars, objVars>>

Init == InitMesh /\ InitOctreeIdle /\ InitReaderIdle

Next ==
    \/ SoupInsertFace
    \/ New
    \/ FlipFace
    \/ Orient
    \/ VertexOut
    \/ FaceIter
    \/ Components
    \/ FaceConsistent

Spec == Init /\ [][Next]_vars

\* ------------------------------------------- machine of merge and extract
\* The soup of n vertices with the patch names and the faces given, a face
\* being <<vertex list, patch>>.
RECURSIVE soup_with_patches(_, _)
soup_with_patches(s, names) ==
    IF names = <<>> THEN s
    ELSE soup_with_patches(soup_insert_patch(s, Head(names)), Tail(names))

RECURSIVE soup_with_faces(_, _)
soup_with_faces(s, faces) ==
    IF faces = <<>> THEN s
    ELSE soup_with_faces(soup_insert_face(s, Head(faces)[1], Head(faces)[2]),
                         Tail(faces))

soup_of(n, names, faces) ==
    soup_with_faces(soup_with_patches(soup_of_vertices(n), names), faces)

\* The soups merged and extracted from; every patch handle of a face is an
\* index of the soup's patch list. Two closed consistent pairs of triangles
\* (one over a vertex no face uses, with both patches swapped), an open
\* consistent pair, a quad under a patch name listed twice, an empty face
\* before a triangle, and a triangle before an empty face beside a patch no
\* face uses.
PatchedSoups ==
    { soup_of(3, <<"p">>, << <<<<0, 1, 2>>, 0>>, <<<<0, 2, 1>>, None>> >>),
      soup_of(4, <<"p", "q">>, << <<<<0, 1, 2>>, 1>>, <<<<0, 2, 1>>, 0>> >>),
      soup_of(4, <<"q", "p">>, << <<<<0, 1, 2>>, 0>>, <<<<1, 0, 3>>, 1>> >>),
      soup_of(4, <<"q", "q">>, << <<<<0, 1, 2, 3>>, 1>> >>),
      soup_of(3, <<>>, << <<<<>>, None>>, <<<<0, 1, 2>>, None>> >>),
      soup_of(3, <<"r">>, << <<<<0, 1, 2>>, None>>, <<<<>>, None>> >>) }

InitMerge ==
    /\ InitOctreeIdle
    /\ InitReaderIdle
    /\ soup \in PatchedSoups
    /\ mesh = HeMesh_default
    /\ status = "soup"
    /\ op = [name |-> "none"]
    /\ flips = 0
    /\ merges = 0

\* mesh.merge(&other), other constructed from one of the soups
Merge ==
    /\ status = "Ok"
    /\ merges < MaxMerges
    /\ \E s \in PatchedSoups :
          LET b == HeMesh_new(s)
              r == merge(mesh, b.mesh)
          IN  /\ b.result = "Ok"
              /\ mesh' = r.mesh
              /\ status' = Ended(r.outcome)
              /\ op' = [name |-> "merge", before |-> mesh, other |-> b.mesh,
                        outcome |-> r.outcome]
    /\ merges' = merges + 1
    /\ UNCHANGED <<soup, flips, octVars, objVars>>

\* The lists of distinct face indices of m.
FaceLists(m) ==
    LET n == Len(m.faces)
    IN  UNION { {q \in [1..k -> 0..(n - 1)] :
                    \A x, y \in 1..k : x # y => q[x] # q[y]} :
                k \in 0..n }

\* mesh.extract_faces(&faces)
ExtractFaces ==
    /\ status = "Ok"
    /\ Len(mesh.faces) <= MaxExtract
    /\ \E faces \in FaceLists(mesh) :
          LET r == extract_faces(mesh, faces)
          IN  /\ status' = Ended(r.outcome)
              /\ op' = [name |-> "extract_faces", faces |-> faces,
                        result |-> r.mesh, outcome |-> r.outcome]
    /\ UNCHANGED <<soup, mesh, flips, merges, octVars, objVars>>

\* Lists that name one face of m twice and three times.
RepeatedLists(m) ==
    {<<f, f>> : f \in 0..(Len(m.faces) - 1)}
        \cup {<<f, f, f>> : f \in 0..(Len(m.faces) - 1)}

\* mesh.extract_faces(&faces) with a face listed more than once
ExtractRepeated ==
    /\ status = "Ok"
    /\ Len(mesh.faces) <= MaxExtract
    /\ \E faces \in RepeatedLists(mesh) :
          LET r == extract_faces(mesh, faces)
          IN  /\ status' = Ended(r.outcome)
              /\ op' = [name |-> "extract_repeated", faces |-> faces,
                        result |-> r.mesh, outcome |-> r.outcome]
    /\ UNCHANGED <<soup, mesh, flips, merges, octVars, objVars>>

NextMerge ==
    \/ New
    \/ Merge
    \/ Components
    \/ ExtractFaces
    \/ ExtractRepeated

SpecMerge == InitMerge /\ [][NextMerge]_vars

\* Construction followed by flip_face and merge calls in any order, and the
\* outgoing half-edge iterator run on the mesh they leave.
NextIter ==
    \/ New
    \/ FlipFace
    \/ Merge
    \/ VertexOut

SpecIter == InitMerge /\ [][NextIter]_vars

\* ==================================================== properties: the mesh
\* The mesh is exactly what HeMesh::new returned for the soup.
Constructed == op.name = "new" /\ status = "Ok"

Handles(m) == 0..(Len(m.half_edges) - 1)

\* The unordered endpoint pair {origin, next-origin} of half-edge h.
EndPair(m, h) ==
    LET e == At(m.half_edges, h)
    IN  {e.origin, At(m.half_edges, e.next).origin}

\* The half-edges other than h on h's unordered endpoint pair.
Sharing(m, h) == {t \in Handles(m) \ {h} : EndPair(m, t) = EndPair(m, h)}

\* The directed edges of the soup, face by face: <<origin, next-origin>>.
SoupEdges(s) ==
    LET edges(f) ==
            LET vs == soup_face(s, f).vertices
            IN  [k \in 1..Len(vs) |-> <<vs[k], vs[(k % Len(vs)) + 1]>>]
        RECURSIVE upto(_)
        upto(f) == IF f = 0 THEN <<>> ELSE upto(f - 1) \o edges(f - 1)
    IN  upto(soup_n_faces(s))

\* Number of soup half-edges on the unordered pair of the p-th.
SoupShare(s, p) ==
    LET es == SoupEdges(s)
    IN  Cardinality({q \in 1..Len(es) :
                        {es[q][1], es[q][2]} = {es[p][1], es[p][2]}})

SoupHasTriple(s) == \E p \in 1..Len(SoupEdges(s)) : SoupShare(s, p) >= 3

\* No two soup half-edges on the same unordered pair start at the same vertex.
SoupOpposed(s) ==
    LET es == SoupEdges(s)
    IN  \A p, q \in 1..Len(es) :
            (p # q /\ {es[p][1], es[p][2]} = {es[q][1], es[q][2]})
                => es[p][1] # es[q][1]

\* Every index stored in a soup face is an index of its vertex array.
SoupInRange(s) ==
    \A k \in 1..Len(s.face_vertices) : s.face_vertices[k] < Len(s.vertices)

\* C1: HeMesh::new returns Err(NonManifold) exactly when some unordered
\* vertex pair carries three or more half-edges of the soup; otherwise it
\* returns Ok with at most two half-edges on every unordered pair.
C1_NonManifoldIff ==
    op.name = "new" =>
        /\ (status = "NonManifold") <=> SoupHasTriple(soup)
        /\ ~SoupHasTriple(soup) =>
              /\ status = "Ok"
              /\ \A h \in Handles(mesh) : Cardinality(Sharing(mesh, h)) <= 1

\* C2 as stated: after construction every twin starts where its partner's
\* next starts, so the mesh is consistent.
C2_TwinsOpposed ==
    Constructed =>
        /\ \A h \in Handles(mesh) :
              LET e == At(mesh.half_edges, h)
              IN  e.twin # None =>
                     At(mesh.half_edges, e.twin).origin
                         = At(mesh.half_edges, e.next).origin
        /\ is_consistent(mesh)

\* C2 amended: after construction a half-edge and its twin lie on the same
\* unordered endpoint pair, and is_consistent() is true exactly when no two
\* half-edges of the soup on one unordered pair start at the same vertex.
C2_TwinsShareEdge ==
    Constructed =>
        /\ \A h \in Handles(mesh) :
              LET e == At(mesh.half_edges, h)
              IN  e.twin # None =>
                     /\ e.twin \in Handles(mesh)
                     /\ EndPair(mesh, e.twin) = EndPair(mesh, h)
        /\ is_consistent(mesh) <=> SoupOpposed(soup)

C2_Witness ==
    /\ Constructed
    /\ ~is_consistent(mesh)
    /\ \E h \in Handles(mesh) : At(mesh.half_edges, h).twin # None

\* v's stored half-edge exists and starts at v.
AnchoredAt(m, v) ==
    /\ InRange(m.half_edges, At(m.vertices, v).half_edge)
    /\ At(m.half_edges, At(m.vertices, v).half_edge).origin = v

Anchored(m) == \A v \in 0..(Len(m.vertices) - 1) : AnchoredAt(m, v)

UsedVertex(m, v) == \E h \in Handles(m) : At(m.half_edges, h).origin = v

Block(s, f) ==
    LET nh == At(s.face_offsets, f)
    IN  [k \in 1..Len(soup_face(s, f).vertices) |-> nh + k - 1]

\* C4: after construction prev and next are inverse on every half-edge, the
\* k half-edges of a face of k >= 3 vertices carry its handle, and the face
\* iterator yields exactly those k handles in next-order and then ends.
C4_FaceCycle ==
    /\ Constructed =>
          /\ \A h \in Handles(mesh) :
                LET e == At(mesh.half_edges, h)
                IN  /\ At(mesh.half_edges, e.next).prev = h
                    /\ At(mesh.half_edges, e.prev).next = h
          /\ \A f \in 0..(Len(mesh.faces) - 1) :
                LET b == Block(soup, f)
                IN  Len(b) >= 3 =>
                       /\ At(mesh.faces, f).half_edge = b[1]
                       /\ \A k \in 1..Len(b) :
                             /\ At(mesh.half_edges, b[k]).face = f
                             /\ At(mesh.half_edges, b[k]).next
                                    = b[(k % Len(b)) + 1]
    /\ (/\ op.name = "face_half_edges"
        /\ mesh = HeMesh_new(soup).mesh
        /\ Len(Block(soup, op.face)) >= 3)
          => op.outcome = "done" /\ op.items = Block(soup, op.face)

C4_Witness ==
    /\ op.name = "face_half_edges"
    /\ mesh = HeMesh_new(soup).mesh
    /\ op.face = 1
    /\ Len(op.items) = 4

\* C5: after construction h.twin is t exactly when t is the one other
\* half-edge on h's unordered endpoint pair, twins point at each other, and
\* h has no twin exactly when it is alone on its pair.
C5_TwinIffShared ==
    Constructed =>
        \A h \in Handles(mesh) :
            LET e == At(mesh.half_edges, h)
            IN  /\ \A t \in Handles(mesh) :
                      (e.twin = t) <=> (Sharing(mesh, h) = {t})
                /\ (e.twin = None) <=> (Sharing(mesh, h) = {})
                /\ e.twin # None => At(mesh.half_edges, e.twin).twin = h

C5_Witness ==
    /\ Constructed
    /\ \E h \in Handles(mesh) : At(mesh.half_edges, h).twin # None
    /\ \E h \in Handles(mesh) : At(mesh.half_edges, h).twin = None

\* The mesh after flip_face on the faces of fs, one after the other.
RECURSIVE FlipAll(_, _)
FlipAll(m, fs) ==
    IF fs = {} THEN m
    ELSE LET f == CHOOSE x \in fs : TRUE
         IN  FlipAll(flip_face(m, f).mesh, fs \ {f})

\* Some choice of faces to reverse makes every twin pair run opposed.
Orientable(m) ==
    \E fs \in SUBSET (0..(Len(m.faces) - 1)) : is_consistent(FlipAll(m, fs))

\* C8: after orient() on a mesh whose components are orientable no
\* half-edge shares its origin with its twin, and every face was visited.
C8_OrientMakesConsistent ==
    (op.name = "orient" /\ status = "Ok" /\ Orientable(op.before)) =>
        /\ is_consistent(mesh)
        /\ \A f \in 0..(Len(mesh.faces) - 1) : At(op.oriented, f)

\* C9: flip_face keeps every vertex the origin of its stored half-edge.
C9_FlipKeepsAnchors ==
    (op.name = "flip_face" /\ status = "Ok" /\ Anchored(op.before)) =>
        Anchored(mesh)

\* What the iterator started at h0 yielded is h0 and then twin(prev(.)).
OutChain(m, h0, its) ==
    /\ its # <<>> => its[1] = h0
    /\ \A k \in 1..(Len(its) - 1) :
          its[k + 1] = At(m.half_edges, At(m.half_edges, its[k]).prev).twin

\* The half-edge the iterator stands on after yielding its.
OutCurrent(m, h0, its) ==
    IF its = <<>> THEN h0
    ELSE At(m.half_edges, At(m.half_edges, its[Len(its)]).prev).twin

\* How the iterator ends, read off the half-edge it stands on: it returns
\* None back at the start, else aborts on a missing twin of prev(current),
\* else on a twin that starts elsewhere than the start half-edge.
OutEnding(m, h0, its, outcome) ==
    LET cur == OutCurrent(m, h0, its)
        twin == IF cur = None THEN None
                ELSE At(m.half_edges, At(m.half_edges, cur).prev).twin
    IN  /\ outcome \in {"done", "closed", "oriented"}
        /\ cur # None
        /\ (outcome = "done") <=> (its # <<>> /\ cur = h0)
        /\ (outcome = "closed") <=> (~(its # <<>> /\ cur = h0) /\ twin = None)
        /\ (outcome = "oriented") =>
              At(m.half_edges, twin).origin # At(m.half_edges, h0).origin

C11_NewNeverAborts ==
    op.name = "new" => status \in {"Ok", "NonManifold"}

\* Face f has a half-edge whose twin lies on another face.
SharesEdge(m, f) ==
    \E h \in Handles(m) :
        /\ At(m.half_edges, h).face = f
        /\ ~is_boundary(At(m.half_edges, h))
        /\ At(m.half_edges, At(m.half_edges, h).twin).face # f

\* C15: flip_face(f) on a closed, consistent mesh in which f shares an edge
\* with another face leaves is_closed() true and makes is_consistent() false.
C15_FlipBreaksConsistency ==
    ( /\ op.name = "flip_face"
      /\ status = "Ok"
      /\ is_closed(op.before)
      /\ is_consistent(op.before)
      /\ SharesEdge(op.before, op.face) )
        => (is_closed(mesh) /\ ~is_consistent(mesh))

C15_Witness ==
    /\ op.name = "flip_face"
    /\ status = "Ok"
    /\ is_closed(op.before)
    /\ is_consistent(op.before)
    /\ SharesEdge(op.before, op.face)
    /\ mesh # op.before
    /\ ~is_consistent(mesh)

\* Faces i and j are joined by a twin link: a half-edge of one has its twin
\* on the other.
TwinLinked(m, i, j) ==
    \E h \in Handles(m) :
        /\ At(m.half_edges, h).face = i
        /\ ~is_boundary(At(m.half_edges, h))
        /\ At(m.half_edges, At(m.half_edges, h).twin).face = j

\* The faces a chain of twin links connects to the faces in fs.
RECURSIVE TwinReach(_, _)
TwinReach(m, fs) ==
    LET more == fs \cup {j \in 0..(Len(m.faces) - 1) :
                            \E i \in fs : TwinLinked(m, i, j)}
    IN  IF more = fs THEN fs ELSE TwinReach(m, more)

\* The face indices of all components, one after the other.
RECURSIVE Flatten(_)
Flatten(cs) == IF cs = <<>> THEN <<>> ELSE Head(cs) \o Flatten(Tail(cs))

SeqSet(q) == {q[k] : k \in 1..Len(q)}

\* The components partition the faces by twin-link connectivity.
ComponentsPartition(m, cs) ==
    LET flat == Flatten(cs)
    IN  /\ Len(flat) = Len(m.faces)
        /\ SeqSet(flat) = 0..(Len(m.faces) - 1)
        /\ \A c \in 1..Len(cs) :
              /\ cs[c] # <<>>
              /\ SeqSet(cs[c]) = TwinReach(m, {cs[c][1]})
        /\ \A f \in 0..(Len(m.faces) - 1) :
              (\A j \in 0..(Len(m.faces) - 1) : ~TwinLinked(m, f, j))
                  => \E c \in 1..Len(cs) : cs[c] = <<f>>

\* C16: components() returns a partition of the face indices: every face
\* is in exactly one component exactly once, two faces share a component
\* exactly when a chain of twin links connects them, and a face whose
\* half-edges all lack a twin is a singleton component.
C16_ComponentsPartition ==
    op.name = "components" =>
        /\ op.outcome = "done"
        /\ ComponentsPartition(mesh, op.components)

\* Every face of the mesh has at least three half-edges.
Polygons(m) ==
    \A f \in 0..(Len(m.faces) - 1) :
        Cardinality({h \in Handles(m) : At(m.half_edges, h).face = f}) >= 3

\* The statement of C16 on meshes all of whose faces are polygons.
C16_ComponentsOfPolygons ==
    (op.name = "components" /\ Polygons(mesh)) =>
        /\ op.outcome = "done"
        /\ ComponentsPartition(mesh, op.components)

\* The merge recorded in op returned: a is the receiver before the call,
\* b the mesh merged into it.
Merged == op.name = "merge" /\ op.outcome = "done"

\* C17: a.merge(b) keeps a's vertex, face and half-edge records and appends
\* b's with every index shifted by a's prior counts: origin by the vertex
\* count, face by the face count, prev, next, twin and the half_edge of
\* vertices and faces by the half-edge count; no twin joins a record of a
\* to a record of b, and where components() returns for a and for b it
\* returns for the result with as many entries as both together.
C17_MergeAppendsShifted ==
    op.name = "merge" =>
        LET a == op.before
            b == op.other
            nv == Len(a.vertices)
            nf == Len(a.faces)
            nh == Len(a.half_edges)
            ca == components(a)
            cb == components(b)
            cm == components(mesh)
        IN  /\ op.outcome = "done"
            /\ Len(mesh.vertices) = nv + Len(b.vertices)
            /\ Len(mesh.faces) = nf + Len(b.faces)
            /\ Len(mesh.half_edges) = nh + Len(b.half_edges)
            /\ SubSeq(mesh.vertices, 1, nv) = a.vertices
            /\ SubSeq(mesh.faces, 1, nf) = a.faces
            /\ SubSeq(mesh.half_edges, 1, nh) = a.half_edges
            /\ \A k \in 1..Len(b.half_edges) :
                  LET h == mesh.half_edges[nh + k]
                      g == b.half_edges[k]
                  IN  /\ h.origin = g.origin + nv
                      /\ h.face = g.face + nf
                      /\ h.prev = g.prev + nh
                      /\ h.next = g.next + nh
                      /\ h.twin = IF g.twin = None THEN None ELSE g.twin + nh
            /\ \A k \in 1..Len(b.vertices) :
                  /\ mesh.vertices[nv + k].origin = b.vertices[k].origin
                  /\ mesh.vertices[nv + k].half_edge
                        = b.vertices[k].half_edge + nh
            /\ \A k \in 1..Len(b.faces) :
                  mesh.faces[nf + k].half_edge = b.faces[k].half_edge + nh
            /\ \A h \in Handles(mesh) :
                  LET t == At(mesh.half_edges, h).twin
                  IN  t # None => ((h < nh) <=> (t < nh))
            /\ (ca.outcome = "done" /\ cb.outcome = "done") =>
                  /\ cm.outcome = "done"
                  /\ Len(cm.components)
                        = Len(ca.components) + Len(cb.components)

C17_Witness ==
    /\ Merged
    /\ ~is_boundary(At(mesh.half_edges, 0))
    /\ ~is_boundary(At(mesh.half_edges, Len(mesh.half_edges) - 1))
    /\ Len(op.before.vertices) > 0
    /\ components(op.before).outcome = "done"
    /\ components(op.other).outcome = "done"
    /\ Len(components(mesh).components) >= 2

PatchNames(patches) == {patches[k].name : k \in 1..Len(patches)}

\* C18: after a.merge(b) the patches of a keep their indices, a patch of b
\* is appended only where no patch of that name is present already, every
\* appended face that had patch p in b has a patch of the name
\* b.patches[p].name, and an appended face without a patch has none.
C18_MergePatchesByName ==
    Merged =>
        LET a == op.before
            b == op.other
            np == Len(a.patches)
            nf == Len(a.faces)
        IN  /\ Len(mesh.patches) >= np
            /\ SubSeq(mesh.patches, 1, np) = a.patches
            /\ \A k \in (np + 1)..Len(mesh.patches) :
                  /\ mesh.patches[k].name \in PatchNames(b.patches)
                  /\ mesh.patches[k].name
                        \notin PatchNames(SubSeq(mesh.patches, 1, k - 1))
            /\ PatchNames(b.patches) \subseteq PatchNames(mesh.patches)
            /\ \A k \in 1..Len(b.faces) :
                  LET p == b.faces[k].patch
                      q == mesh.faces[nf + k].patch
                  IN  IF p = None THEN q = None
                      ELSE /\ InRange(mesh.patches, q)
                           /\ At(mesh.patches, q).name = At(b.patches, p).name

\* b brings a patch name a already has and one it has not, and a face of b
\* is remapped to a patch of a at another index.
C18_Witness ==
    /\ Merged
    /\ Len(mesh.patches) > Len(op.before.patches)
    /\ Len(mesh.patches) < Len(op.before.patches) + Len(op.other.patches)
    /\ \E k \in 1..Len(op.other.faces) :
          LET p == op.other.faces[k].patch
              q == mesh.faces[Len(op.before.faces) + k].patch
          IN  p # None /\ q # p /\ q < Len(op.before.patches)

\* The half-edges that carry face f, in the order they were emitted (the
\* ring order of a face no flip has reversed).
Ring(m, f) ==
    SelectSeq([k \in 1..Len(m.half_edges) |-> k - 1],
              LAMBDA h : At(m.half_edges, h).face = f)

RingVertices(m, f) ==
    [k \in 1..Len(Ring(m, f)) |-> At(m.half_edges, Ring(m, f)[k]).origin]

RingPositions(m, f) ==
    [k \in 1..Len(Ring(m, f)) |->
        At(m.vertices, RingVertices(m, f)[k]).origin]

\* The distinct entries of q in the order of their first occurrence.
RECURSIVE FirstSeen(_)
FirstSeen(q) ==
    IF q = <<>> THEN <<>>
    ELSE LET front == FirstSeen(SubSeq(q, 1, Len(q) - 1))
         IN  IF q[Len(q)] \in SeqSet(front) THEN front
             ELSE Append(front, q[Len(q)])

PatchNameOf(m, f) ==
    IF At(m.faces, f).patch = None THEN None
    ELSE At(m.patches, At(m.faces, f).patch).name

\* r has one face per listed face, with its positions, ring order and patch
\* name.
ExtractedFaces(m, list, r) ==
    /\ Len(r.faces) = Len(list)
    /\ \A i \in 1..Len(list) :
          /\ RingPositions(r, i - 1) = RingPositions(m, list[i])
          /\ face_vertices(r, i - 1).outcome = "done"
          /\ face_vertices(r, i - 1).items = RingVertices(r, i - 1)
          /\ PatchNameOf(r, i - 1) = PatchNameOf(m, list[i])

\* Vertices and patches of r are numbered in first-seen order.
ExtractedNumbering(m, list, r) ==
    LET seen == FirstSeen(Flatten([i \in 1..Len(list) |->
                                      RingVertices(m, list[i])]))
        withPatch == SelectSeq(list, LAMBDA f : At(m.faces, f).patch # None)
        patches == FirstSeen([i \in 1..Len(withPatch) |->
                                 At(m.faces, withPatch[i]).patch])
    IN  /\ Len(r.vertices) = Len(seen)
        /\ \A k \in 1..Len(seen) :
              r.vertices[k].origin = At(m.vertices, seen[k]).origin
        /\ Len(r.patches) = Len(patches)
        /\ \A k \in 1..Len(patches) :
              r.patches[k].name = At(m.patches, patches[k]).name

\* A half-edge of r has a twin exactly when the twin of the half-edge it
\* copies lies on a listed face.
ExtractedTwins(m, list, r) ==
    \A i \in 1..Len(list) :
        /\ Len(Ring(r, i - 1)) = Len(Ring(m, list[i]))
        /\ \A k \in 1..Len(Ring(r, i - 1)) :
              LET t == At(m.half_edges, Ring(m, list[i])[k]).twin
              IN  (~is_boundary(At(r.half_edges, Ring(r, i - 1)[k])))
                    <=> (t # None /\ At(m.half_edges, t).face \in SeqSet(list))

\* Extracting every face of a closed, consistent mesh keeps the counts and
\* gives a closed, consistent mesh.
ExtractedWhole(m, list, r) ==
    ( /\ is_closed(m) /\ is_consistent(m)
      /\ SeqSet(list) = 0..(Len(m.faces) - 1) )
        => /\ Len(r.vertices) = Len(m.vertices)
           /\ Len(r.faces) = Len(m.faces)
           /\ Len(r.half_edges) = Len(m.half_edges)
           /\ is_closed(r) /\ is_consistent(r)

\* C19: extract_faces(list), for distinct face indices, returns a mesh with
\* one face per listed face holding the same positions in the same ring
\* order under the same patch name, vertices and patches numbered in
\* first-seen order, a twin exactly where the source twin lies on a listed
\* face; all faces of a closed, consistent mesh in any order give the same
\* vertex, face and half-edge counts and a closed, consistent mesh.
C19_ExtractFaces ==
    op.name = "extract_faces" =>
        /\ op.outcome = "done"
        /\ ExtractedFaces(mesh, op.faces, op.result)
        /\ ExtractedNumbering(mesh, op.faces, op.result)
        /\ ExtractedTwins(mesh, op.faces, op.result)
        /\ ExtractedWhole(mesh, op.faces, op.result)

\* C20, on meshes whose faces all have at least three half-edges:
\* is_face_consistent(i, j) and is_face_consistent(j, i) return the same
\* value, also after flip_face calls, and the value is false when no
\* half-edge of i has its twin on j.
C20_FaceConsistentSymmetric ==
    (op.name = "is_face_consistent" /\ Polygons(mesh)) =>
        LET back == is_face_consistent(mesh, op.j, op.i)
        IN  /\ op.outcome = "done"
            /\ back.outcome = "done"
            /\ op.value = back.value
            /\ ~TwinLinked(mesh, op.i, op.j) => ~op.value

\* The ring (v0, v1, ..., vk-1) reversed as flip_face leaves it when read
\* from the same first half-edge: (v1, v0, vk-1, ..., v2).
FlippedRing(v) ==
    [n \in 1..Len(v) |->
        IF n = 1 THEN v[2] ELSE IF n = 2 THEN v[1] ELSE v[Len(v) - n + 3]]

\* The flipped face has half-edges of its own, as every face has that
\* orient() passes to flip_face: a neighbour found across a twin link.
FlippedOwnsRing ==
    \E h \in Handles(op.before) :
        At(op.before.half_edges, h).face = op.face

C29_OutgoingIterationEnds ==
    op.name = "vertex_out" =>
        /\ op.outcome \in {"done", "closed", "oriented", "panic"}
        /\ \A x, y \in 1..Len(op.items) :
              x # y => op.items[x] # op.items[y]

\* The iteration returned None with more than one half-edge on a mesh that
\* was flipped and merged.
C29_Witness ==
    /\ op.name = "vertex_out"
    /\ op.outcome = "done"
    /\ Len(op.items) > 1
    /\ flips > 0
    /\ merges > 0

\* The half-edges that the faces of the list put on the unordered vertex
\* pair e, a face listed n times counted n times.
ListedOn(m, faces, e) ==
    { x \in (1..Len(faces)) \X Handles(m) :
          /\ At(m.half_edges, x[2]).face = faces[x[1]]
          /\ EndPair(m, x[2]) = e }

\* C30: extract_faces aborts exactly when the listed faces, counted with
\* repetition, put three or more half-edges on one unordered vertex pair,
\* and never for a list of distinct faces of a constructed mesh.
C30_ExtractAbortsOnNonManifold ==
    op.name \in {"extract_faces", "extract_repeated"} =>
        /\ (op.outcome # "done") <=>
              \E h \in Handles(mesh) :
                  Cardinality(ListedOn(mesh, op.faces, EndPair(mesh, h))) >= 3
        /\ (\A x, y \in 1..Len(op.faces) :
                x # y => op.faces[x] # op.faces[y])
              => op.outcome = "done"

\* ================================================================== octree
\* Aabb: [center, halfsize], each a triple; coordinates are integers in
\* units of the smallest cell, so that halving stays exact down to MAX_DEPTH.
Aabb_new(center, halfsize) == [center |-> center, halfsize |-> halfsize]

Aabb_min(a) == [i \in 1..3 |-> a.center[i] - a.halfsize[i]]

Aabb_max(a) == [i \in 1..3 |-> a.center[i] + a.halfsize[i]]

\* Aabb::octant
Aabb_octant(a, octant) ==
    LET h == [i \in 1..3 |-> a.halfsize[i] \div 2]
        dx == IF (octant \div 4) % 2 = 0 THEN -h[1] ELSE h[1]
        dy == IF (octant \div 2) % 2 = 0 THEN -h[2] ELSE h[2]
        dz == IF octant % 2 = 0 THEN -h[3] ELSE h[3]
    IN  Aabb_new(<<a.center[1] + dx, a.center[2] + dy, a.center[3] + dz>>, h)

\* An overlap test that also accepts boxes one cell apart.
intersects_aabb_aabb_near(a, b) ==
    LET min_a == Aabb_min(a)
        max_a == Aabb_max(a)
        min_b == Aabb_min(b)
        max_b == Aabb_max(b)
    IN  \A i \in 1..3 : min_a[i] <= max_b[i] + 1 /\ max_a[i] + 1 >= min_b[i]

\* intersects_aabb_aabb: the item type T of the octree is Aabb.
intersects_aabb_aabb(a, b) ==
    LET min_a == Aabb_min(a)
        max_a == Aabb_max(a)
        min_b == Aabb_min(b)
        max_b == Aabb_max(b)
    IN  \A i \in 1..3 : min_a[i] <= max_b[i] /\ max_a[i] >= min_b[i]

\* A depth bound rounded up instead of down.
MAX_DEPTH_rounded_up == (WordBits + 2) \div 3

\* const MAX_DEPTH: usize = (std::mem::size_of::<usize>() * 8 - 1) / 3
MAX_DEPTH == (WordBits - 1) \div 3

\* The root box: half-size 2^MAX_DEPTH cells around the origin.
RootBounds ==
    LET h == 2 ^ MAX_DEPTH IN Aabb_new(<<0, 0, 0>>, <<h, h, h>>)

\* The items offered to insert: points in octant 7 and in octant 0, the
\* centre point (on the boundary of all eight octants), a box around the
\* centre that reaches the middle of every octant, and a point outside.
ItemChoices ==
    { Aabb_new(<<1, 1, 1>>, <<0, 0, 0>>),
      Aabb_new(<<-1, -1, -1>>, <<0, 0, 0>>),
      Aabb_new(<<0, 0, 0>>, <<0, 0, 0>>),
      Aabb_new(<<0, 0, 0>>, <<2, 2, 2>>),
      Aabb_new(<<5, 5, 5>>, <<0, 0, 0>>) }

OctreeNode_new(code, bounds) ==
    [code |-> code, bounds |-> bounds, is_leaf |-> TRUE, items |-> <<>>]

\* Octree::new
Octree_new(bounds) == (1 :> OctreeNode_new(1, bounds))

\* OctreeNode::depth: the d in 0..MAX_DEPTH with code >> 3d == 1, or None
\* where the source panics with "invalid octree code".
node_depth(node) ==
    LET ds == {d \in 0..MAX_DEPTH : node.code \div (8 ^ d) = 1}
    IN  IF ds = {} THEN None ELSE CHOOSE d \in ds : \A e \in ds : d <= e

\* OctreeNode::children: (code << 3) | o in a word of WordBits bits.
node_children(node) ==
    [k \in 1..8 |-> ((node.code * 8) % (2 ^ WordBits)) + (k - 1)]

\* OctreeNode::can_split
can_split(node) == node.is_leaf /\ node_depth(node) < MAX_DEPTH

\* A split threshold one item too high.
should_split_late(node) ==
    Len(node.items) > MAX_ITEMS_PER_NODE + 1 /\ can_split(node)

\* OctreeNode::should_split
should_split(node) == Len(node.items) > MAX_ITEMS_PER_NODE /\ can_split(node)

\* A child that takes every item of its parent.
child_items_all(its, parent_items, child_bounds) == parent_items

\* The inner loop of split: the parent's items that intersect the child.
child_items(its, parent_items, child_bounds) ==
    SelectSeq(parent_items,
              LAMBDA item : intersects_aabb_aabb(At(its, item), child_bounds))

\* The loop of split over the octants, from the n-th child on.
RECURSIVE split_children(_, _, _, _, _, _)
split_children(ns, its, children, bounds, parent_items, n) ==
    IF n > Len(children)
    THEN ns
    ELSE LET child_code == children[n]
             child_bounds == Aabb_octant(bounds, n - 1)
             child_node ==
                 [OctreeNode_new(child_code, child_bounds)
                     EXCEPT !.items =
                         child_items(its, parent_items, child_bounds)]
             ns2 == IF child_code \in DOMAIN ns
                    THEN [ns EXCEPT ![child_code] = child_node]
                    ELSE ns @@ (child_code :> child_node)
         IN  split_children(ns2, its, children, bounds, parent_items, n + 1)

\* A split that marks the node non-leaf but keeps its item list.
split_keep_items(ns, its, code) ==
    IF code \notin DOMAIN ns
    THEN [nodes |-> ns, outcome |-> "done"]
    ELSE LET node == ns[code]
         IN  IF ~can_split(node)
             THEN [nodes |-> ns, outcome |-> "panic"]
             ELSE [ nodes |->
                        split_children(
                            [ns EXCEPT ![code].is_leaf = FALSE],
                            its, node_children(node), node.bounds,
                            node.items, 1),
                    outcome |-> "done" ]

\* Octree::split: [nodes, outcome].
split(ns, its, code) ==
    IF code \notin DOMAIN ns
    THEN [nodes |-> ns, outcome |-> "done"]
    ELSE LET node == ns[code]
         IN  IF ~can_split(node)
             THEN [nodes |-> ns, outcome |-> "panic"]
             ELSE [ nodes |->
                        split_children(
                            [ns EXCEPT ![code].is_leaf = FALSE,
                                       ![code].items = <<>>],
                            its, node_children(node), node.bounds,
                            node.items, 1),
                    outcome |-> "done" ]

\* The while loop of insert; queue is a stack popped from its end.
RECURSIVE insert_place(_, _, _, _, _)
insert_place(ns, item, index, queue, codes) ==
    IF queue = <<>>
    THEN [nodes |-> ns, codes |-> codes]
    ELSE LET code == queue[Len(queue)]
             rest == SubSeq(queue, 1, Len(queue) - 1)
         IN  IF code \in DOMAIN ns /\ intersects_aabb_aabb(item, ns[code].bounds)
             THEN IF ns[code].is_leaf
                  THEN insert_place(
                           [ns EXCEPT ![code].items = Append(@, index)],
                           item, index, rest, Append(codes, code))
                  ELSE insert_place(ns, item, index,
                                    rest \o node_children(ns[code]), codes)
             ELSE insert_place(ns, item, index, rest, codes)

\* The for loop of insert over the recorded codes, from the n-th on.
RECURSIVE insert_splits(_, _, _, _)
insert_splits(ns, its, codes, n) ==
    IF n > Len(codes)
    THEN [nodes |-> ns, outcome |-> "done"]
    ELSE IF should_split(ns[codes[n]])
    THEN LET r == split(ns, its, codes[n])
         IN  IF r.outcome # "done" THEN r
             ELSE insert_splits(r.nodes, its, codes, n + 1)
    ELSE insert_splits(ns, its, codes, n + 1)

\* An insert that appends the item before it looks at the recorded codes.
insert_append_first(ns, its, item) ==
    LET index == Len(its)
        placed == insert_place(ns, item, index, <<1>>, <<>>)
        its2 == Append(its, item)
        r == insert_splits(placed.nodes, its2, placed.codes, 1)
    IN  IF placed.codes = <<>>
        THEN [ nodes |-> placed.nodes, items |-> its2, codes |-> <<>>,
               index |-> index, outcome |-> "panic" ]
        ELSE [ nodes |-> r.nodes, items |-> its2, codes |-> placed.codes,
               index |-> index, outcome |-> r.outcome ]

\* Octree::insert: [nodes, items, codes, index, outcome]; outcome "panic"
\* is the abort "item not inserted".
insert(ns, its, item) ==
    LET index == Len(its)
        placed == insert_place(ns, item, index, <<1>>, <<>>)
        its2 == Append(its, item)
        r == insert_splits(placed.nodes, its2, placed.codes, 1)
    IN  IF placed.codes = <<>>
        THEN [ nodes |-> placed.nodes, items |-> its, codes |-> <<>>,
               index |-> index, outcome |-> "panic" ]
        ELSE [ nodes |-> r.nodes, items |-> its2, codes |-> placed.codes,
               index |-> index, outcome |-> r.outcome ]

\* ---------------------------------------------------------- octree machine
InitMeshIdle ==
    /\ soup = PolygonSoup_new
    /\ mesh = HeMesh_default
    /\ status = "idle"
    /\ op = [name |-> "none"]
    /\ flips = 0
    /\ merges = 0

InitOctree ==
    /\ InitMeshIdle
    /\ InitReaderIdle
    /\ nodes = Octree_new(RootBounds)
    /\ items = <<>>
    /\ last = [name |-> "new", outcome |-> "done"]
    /\ splits = 0

\* octree.insert(item)
OctInsert ==
    /\ last.outcome = "done"
    /\ Len(items) < MaxItems
    /\ \E item \in ItemChoices :
          LET r == insert(nodes, items, item)
          IN  /\ nodes' = r.nodes
              /\ items' = r.items
              /\ last' = IF r.outcome = "panic"
                          THEN [ name |-> "insert", outcome |-> r.outcome,
                                 codes |-> r.codes, index |-> r.index,
                                 item |-> item, before |-> nodes,
                                 items_before |-> items ]
                          ELSE [ name |-> "insert", outcome |-> r.outcome,
                                 codes |-> r.codes, index |-> r.index,
                                 item |-> item ]
    /\ UNCHANGED <<splits, meshVars, objVars>>

\* octree.split(code), called directly
OctSplit ==
    /\ last.outcome = "done"
    /\ splits < MaxSplits
    /\ \E code \in DOMAIN nodes :
          LET r == split(nodes, items, code)
          IN  /\ nodes' = r.nodes
              /\ last' = [ name |-> "split", outcome |-> r.outcome,
                           code |-> code ]
    /\ splits' = splits + 1
    /\ UNCHANGED <<items, meshVars, objVars>>

NextOctree ==
    \/ OctInsert
    \/ OctSplit

SpecOctree == InitOctree /\ [][NextOctree]_vars

\* ================================================== properties: the octree
Leaves(ns) == {c \in DOMAIN ns : ns[c].is_leaf}

Holds(node, i) == \E k \in 1..Len(node.items) : node.items[k] = i

\* C6: for every item index the leaves that list it are exactly the leaves
\* whose bounds the item intersects.
C6_LeafMembership ==
    last.outcome = "done" =>
        \A i \in 0..(Len(items) - 1) :
            {c \in Leaves(nodes) : Holds(nodes[c], i)}
                = {c \in Leaves(nodes) :
                      intersects_aabb_aabb(At(items, i), nodes[c].bounds)}

C6_Witness ==
    /\ last.name = "insert" /\ last.outcome = "done"
    /\ Cardinality(DOMAIN nodes) > 9
    /\ \E i \in 0..(Len(items) - 1) :
          /\ Cardinality({c \in Leaves(nodes) : Holds(nodes[c], i)}) > 1
          /\ \E c \in Leaves(nodes) : ~Holds(nodes[c], i)

Overfull(node) ==
    Len(node.items) > MAX_ITEMS_PER_NODE /\ node_depth(node) < MAX_DEPTH

\* C7 as stated: when insert has returned no leaf below MAX_DEPTH holds
\* more than MAX_ITEMS_PER_NODE items, the children of a split included.
C7_NoLeafOverfull ==
    (last.name = "insert" /\ last.outcome = "done") =>
        \A c \in Leaves(nodes) : ~Overfull(nodes[c])

\* C7 amended: when insert has returned, none of the leaves it placed the
\* item in is still a leaf that holds more than MAX_ITEMS_PER_NODE items
\* below MAX_DEPTH.
C7_PlacedLeafNotOverfull ==
    (last.name = "insert" /\ last.outcome = "done") =>
        \A k \in 1..Len(last.codes) :
            LET c == last.codes[k]
            IN  nodes[c].is_leaf => ~Overfull(nodes[c])

C7_Witness ==
    /\ last.name = "insert" /\ last.outcome = "done"
    /\ \E k \in 1..Len(last.codes) : ~nodes[last.codes[k]].is_leaf
    /\ \E c \in Leaves(nodes) : Overfull(nodes[c])

\* C12: insert aborts exactly when the item intersects no leaf, which is
\* when it does not overlap the root bounds, and at the abort the item array
\* and every node (item list and leaf flag) are as they were before the call.
C12_AbortChangesNothing ==
    last.name = "insert" =>
        /\ (last.outcome = "panic")
              <=> ~intersects_aabb_aabb(last.item, nodes[1].bounds)
        /\ last.outcome = "panic" =>
              /\ \A c \in Leaves(last.before) :
                    ~intersects_aabb_aabb(last.item, last.before[c].bounds)
              /\ items = last.items_before
              /\ nodes = last.before

C12_Witness ==
    /\ last.name = "insert" /\ last.outcome = "panic"
    /\ Len(items) > 0
    /\ ~nodes[1].is_leaf

\* C13: the root code 1 is allocated; every other allocated node c has an
\* allocated non-leaf parent c >> 3 with all eight children allocated, has
\* the bounds parent.bounds.octant(c & 7) and depth(parent) + 1 <= MAX_DEPTH;
\* the child codes of a node that can be split fit the machine word.
C13_TreeShape ==
    /\ 1 \in DOMAIN nodes
    /\ \A c \in DOMAIN nodes :
          /\ nodes[c].code = c
          /\ node_depth(nodes[c]) # None
          /\ node_depth(nodes[c]) <= MAX_DEPTH
          /\ can_split(nodes[c]) => (c * 8) + 7 < 2 ^ WordBits
    /\ \A c \in DOMAIN nodes \ {1} :
          LET parent == c \div 8
          IN  /\ parent \in DOMAIN nodes
              /\ ~nodes[parent].is_leaf
              /\ \A k \in 0..7 : (parent * 8) + k \in DOMAIN nodes
              /\ nodes[c].bounds = Aabb_octant(nodes[parent].bounds, c % 8)
              /\ node_depth(nodes[c]) = node_depth(nodes[parent]) + 1

C13_Witness ==
    /\ last.name = "split" /\ last.outcome = "done"
    /\ \E c \in DOMAIN nodes :
          /\ node_depth(nodes[c]) = MAX_DEPTH
          /\ nodes[c].items # <<>>

\* C14: a node that is not a leaf has an empty item list.
C14_InnerNodesEmpty ==
    \A c \in DOMAIN nodes : ~nodes[c].is_leaf => nodes[c].items = <<>>

\* An insert into a tree whose root was already split, which itself split a
\* leaf it had placed the item in.
C14_Witness ==
    /\ last.name = "insert" /\ last.outcome = "done"
    /\ \A k \in 1..Len(last.codes) : last.codes[k] # 1
    /\ \E k \in 1..Len(last.codes) :
          /\ ~nodes[last.codes[k]].is_leaf
          /\ nodes[last.codes[k]].items = <<>>

\* The leaves that list item index i.
LeavesOf(i) == {c \in Leaves(nodes) : Holds(nodes[c], i)}

\* C28 as stated: after inserts alone every item index is listed by at most
\* 8 leaves.
C28_AtMostEightLeaves ==
    splits = 0 =>
        \A i \in 0..(Len(items) - 1) : Cardinality(LeavesOf(i)) <= 8

\* C28 amended: after inserts alone an item without extent (a point) is
\* listed by at most 8 leaves.
C28_PointInAtMostEightLeaves ==
    splits = 0 =>
        \A i \in 0..(Len(items) - 1) :
            At(items, i).halfsize = <<0, 0, 0>> =>
                Cardinality(LeavesOf(i)) <= 8

\* The centre point is listed by 8 leaves of a tree that inserts have split
\* twice.
C28_Witness ==
    /\ splits = 0
    /\ \E c \in Leaves(nodes) : node_depth(nodes[c]) = 2
    /\ \E i \in 0..(Len(items) - 1) :
          /\ At(items, i).halfsize = <<0, 0, 0>>
          /\ Cardinality(LeavesOf(i)) = 8

\* ============================================================== OBJ reader
\* src/src/mesh/wavefront.rs.  A file is the sequence of its lines, a trimmed
\* line is the sequence of its whitespace-separated tokens and a token is
\* the sequence of its characters, so that splitting and number parsing are
\* computed on the text as the reader computes them.

\* Lines of a file.
MaxLines == 3

Digits == {"0", "1", "2", "3", "4", "5", "6", "7", "8", "9"}

DigitValue(c) ==
    CASE c = "0" -> 0 [] c = "1" -> 1 [] c = "2" -> 2 [] c = "3" -> 3
      [] c = "4" -> 4 [] c = "5" -> 5 [] c = "6" -> 6 [] c = "7" -> 7
      [] c = "8" -> 8 [] c = "9" -> 9

AllDigits(text) == text # <<>> /\ \A k \in 1..Len(text) : text[k] \in Digits

RECURSIVE digits_value(_, _)
digits_value(text, acc) ==
    IF text = <<>> THEN acc
    ELSE digits_value(Tail(text), 10 * acc + DigitValue(Head(text)))

\* text.parse::<usize>(): an optional '+', then decimal digits that fit the
\* word; a '-' is not accepted by an unsigned type.
parse_usize(text) ==
    LET digits == IF text # <<>> /\ Head(text) = "+" THEN Tail(text)
                  ELSE text
    IN  IF AllDigits(digits) /\ digits_value(digits, 0) < 2 ^ WordBits
        THEN [ok |-> TRUE, value |-> digits_value(digits, 0)]
        ELSE [ok |-> FALSE, value |-> 0]

\* text.parse::<f64>() on the texts of the model, which are written with
\* signs and decimal digits only: an optional sign, then digits.
parse_f64(text) ==
    LET signed == text # <<>> /\ Head(text) \in {"+", "-"}
        digits == IF signed THEN Tail(text) ELSE text
    IN  IF AllDigits(digits)
        THEN [ok |-> TRUE,
              value |-> IF signed /\ Head(text) = "-"
                        THEN 0 - digits_value(digits, 0)
                        ELSE digits_value(digits, 0)]
        ELSE [ok |-> FALSE, value |-> 0]

\* text.splitn(2, "/").next(): the text before the first '/'.
RECURSIVE index_part(_)
index_part(text) ==
    IF text = <<>> \/ Head(text) = "/" THEN <<>>
    ELSE <<Head(text)>> \o index_part(Tail(text))

\* line.splitn(2, char::is_whitespace): the first token and, when there is
\* one, the rest of the line; the empty line gives one empty string.
split_args(line) ==
    IF line = <<>> THEN << <<>> >>
    ELSE IF Len(line) = 1 THEN <<Head(line)>>
    ELSE <<Head(line), Tail(line)>>

RECURSIVE parse_vertex_loop(_, _, _)
parse_vertex_loop(data, i, vertex) ==
    IF i >= Len(data) THEN [outcome |-> "done", vertex |-> vertex]
    ELSE IF i >= 3 THEN [outcome |-> "InvalidVertex", vertex |-> vertex]
    ELSE LET value == parse_f64(At(data, i))
         IN  IF value.ok
             THEN parse_vertex_loop(data, i + 1,
                                    [vertex EXCEPT ![i + 1] = value.value])
             ELSE [outcome |-> "InvalidVertex", vertex |-> vertex]

\* ObjReader::parse_vertex
parse_vertex(m, data) ==
    LET r == parse_vertex_loop(data, 0, <<0, 0, 0>>)
    IN  IF r.outcome = "done"
        THEN [outcome |-> "done", mesh |-> soup_insert_vertex(m, r.vertex)]
        ELSE [outcome |-> r.outcome, mesh |-> m]

\* The token loop of parse_face: a token whose index part does not parse is
\* passed over, a parsed 0 ends the loop with InvalidFace.
RECURSIVE parse_face_loop(_, _, _)
parse_face_loop(data, i, vertices) ==
    IF i >= Len(data) THEN [outcome |-> "done", vertices |-> vertices]
    ELSE LET value == parse_usize(index_part(At(data, i)))
         IN  IF ~value.ok THEN parse_face_loop(data, i + 1, vertices)
             ELSE IF value.value <= 0
             THEN [outcome |-> "InvalidFace", vertices |-> vertices]
             ELSE parse_face_loop(data, i + 1,
                                  Append(vertices, value.value - 1))

parse_face_patch_unshifted(m, data) ==
    LET r == parse_face_loop(data, 0, <<>>)
        patch == Len(m.patches)
    IN  IF r.outcome # "done" THEN [outcome |-> r.outcome, mesh |-> m]
        ELSE IF Len(r.vertices) < 3
        THEN [outcome |-> "InvalidFace", mesh |-> m]
        ELSE [outcome |-> "done",
              mesh |-> soup_insert_face(m, r.vertices,
                           IF patch # 0 THEN patch ELSE None)]

\* ObjReader::parse_face
parse_face(m, data) ==
    LET r == parse_face_loop(data, 0, <<>>)
        patch == Len(m.patches)
    IN  IF r.outcome # "done" THEN [outcome |-> r.outcome, mesh |-> m]
        ELSE IF Len(r.vertices) < 3
        THEN [outcome |-> "InvalidFace", mesh |-> m]
        ELSE [outcome |-> "done",
              mesh |-> soup_insert_face(m, r.vertices,
                           IF patch # 0 THEN patch - 1 ELSE None)]

\* ObjReader::parse_group: the name is the rest of the line.
parse_group(m, data) ==
    [outcome |-> "done", mesh |-> soup_insert_patch(m, data)]

\* &args[1]: indexing a one-element Vec aborts.
args_1(m, args) == [outcome |-> "panic", mesh |-> m]

\* One pass of the line loop of ObjReader::read: `?` returns the error of
\* the line, otherwise the next line is taken.
read_line(r, res) ==
    IF res.outcome = "done"
    THEN [r EXCEPT !.pos = @ + 1, !.mesh = res.mesh]
    ELSE [r EXCEPT !.result = res.outcome]

\* Lines a file is made of: vertices with three, two and four coordinates
\* and with a coordinate that is no number; faces with plain and with
\* slashed tokens, with two vertices, with a 0 and with a negative index;
\* a group; each command alone on its line; the empty line.
LineChoices ==
    { << <<"v">>, <<"1">>, <<"2">>, <<"3">> >>,
      << <<"v">>, <<"-", "1">>, <<"2">> >>,
      << <<"v">>, <<"1">>, <<"2">>, <<"3">>, <<"4">> >>,
      << <<"v">>, <<"1">>, <<"x">> >>,
      << <<"v">> >>,
      << <<"f">>, <<"1">>, <<"2">>, <<"3">> >>,
      << <<"f">>, <<"3", "/", "1">>, <<"2">>, <<"1", "/", "/", "2">> >>,
      << <<"f">>, <<"1">>, <<"2">> >>,
      << <<"f">>, <<"1">>, <<"0">>, <<"2">>, <<"3">> >>,
      << <<"f">>, <<"1">>, <<"2">>, <<"3">>, <<"-", "1">> >>,
      << <<"f">> >>,
      << <<"g">>, <<"a">> >>,
      << <<"g">> >>,
      <<>> }

Files == UNION {[1..n -> LineChoices] : n \in 0..MaxLines}

\* ------------------------------------------------------------ read machine
InitRead ==
    /\ InitMeshIdle
    /\ InitOctreeIdle
    /\ \E f \in Files :
          reader = [name |-> "read", lines |-> f, pos |-> 0,
                    mesh |-> PolygonSoup_new, result |-> "reading"]

\* The line the loop is at and its split.
ReadingLine ==
    /\ reader.name = "read"
    /\ reader.result = "reading"
    /\ reader.pos < Len(reader.lines)

ReadArgs == split_args(At(reader.lines, reader.pos))

\* Some(&"v") => self.parse_vertex(&mut mesh, &args[1])
ReadVertex ==
    /\ ReadingLine
    /\ At(ReadArgs, 0) = <<"v">>
    /\ reader' = read_line(reader,
                     IF Len(ReadArgs) < 2 THEN args_1(reader.mesh, ReadArgs)
                     ELSE parse_vertex(reader.mesh, At(ReadArgs, 1)))
    /\ UNCHANGED <<meshVars, octVars>>

\* Some(&"f") => self.parse_face(&mut mesh, &args[1])
ReadFace ==
    /\ ReadingLine
    /\ At(ReadArgs, 0) = <<"f">>
    /\ reader' = read_line(reader,
                     IF Len(ReadArgs) < 2 THEN args_1(reader.mesh, ReadArgs)
                     ELSE parse_face(reader.mesh, At(ReadArgs, 1)))
    /\ UNCHANGED <<meshVars, octVars>>

\* Some(&"g") => self.parse_group(&mut mesh, &args[1])
ReadGroup ==
    /\ ReadingLine
    /\ At(ReadArgs, 0) = <<"g">>
    /\ reader' = read_line(reader,
                     IF Len(ReadArgs) < 2 THEN args_1(reader.mesh, ReadArgs)
                     ELSE parse_group(reader.mesh, At(ReadArgs, 1)))
    /\ UNCHANGED <<meshVars, octVars>>

\* _ => Ok(())
ReadOther ==
    /\ ReadingLine
    /\ At(ReadArgs, 0) \notin {<<"v">>, <<"f">>, <<"g">>}
    /\ reader' = [reader EXCEPT !.pos = @ + 1]
    /\ UNCHANGED <<meshVars, octVars>>

\* Ok(mesh) after the last line
ReadReturn ==
    /\ reader.name = "read"
    /\ reader.result = "reading"
    /\ reader.pos = Len(reader.lines)
    /\ reader' = [reader EXCEPT !.result = "Ok"]
    /\ UNCHANGED <<meshVars, octVars>>

NextRead ==
    \/ ReadVertex
    \/ ReadFace
    \/ ReadGroup
    \/ ReadOther
    \/ ReadReturn

SpecRead == InitRead /\ [][NextRead]_vars

\* ------------------------------------------------------- OBJ reader claims
\* Whether a line starts with the command token c.
IsCommand(line, c) == line # <<>> /\ Head(line) = <<c>>

\* Lines the loop has passed, by command.
LinesRead(c) ==
    {k \in 1..reader.pos : IsCommand(reader.lines[k], c)}

\* C21: the n-th face of the soup comes from the n-th face line passed; its
\* patch is None when no `g` line precedes that line and otherwise the
\* number of `g` lines preceding it minus one.
C21_PatchOfLastGroup ==
    reader.name = "read" =>
        /\ Len(reader.mesh.face_patches) = Cardinality(LinesRead("f"))
        /\ \A k \in LinesRead("f") :
              LET n == Cardinality({j \in LinesRead("f") : j <= k})
                  g == Cardinality({j \in LinesRead("g") : j < k})
              IN  reader.mesh.face_patches[n] =
                      IF g = 0 THEN None ELSE g - 1

\* A file read to its end that has a face before its `g` line and one after.
C21_Witness ==
    /\ reader.name = "read"
    /\ reader.result = "Ok"
    /\ reader.mesh.face_patches = <<None, 0>>

\* C22: read never aborts, whatever the lines are.
C22_ReadNeverAborts == reader.name = "read" => reader.result # "panic"

\* Whether an index text denotes 0 or a negative number.
NonPositive(text) ==
    \/ AllDigits(text) /\ digits_value(text, 0) = 0
    \/ Len(text) > 1 /\ Head(text) = "-" /\ AllDigits(Tail(text))

\* The loop is at a face line that has arguments.
AtFaceLine ==
    /\ ReadingLine
    /\ IsCommand(At(reader.lines, reader.pos), "f")
    /\ Len(At(reader.lines, reader.pos)) > 1

\* C23: a face line with a token whose index part is 0 or negative, or with
\* fewer than three tokens, ends the read with InvalidFace and leaves the
\* soup as it was; any other face line appends exactly one face whose
\* vertices are the tokens' indices minus one, in token order.
C23_FaceLine ==
    [][ AtFaceLine =>
          LET data == Tail(At(reader.lines, reader.pos))
              n == soup_n_faces(reader.mesh)
          IN  IF \/ \E k \in 1..Len(data) : NonPositive(index_part(data[k]))
                 \/ Len(data) < 3
              THEN /\ reader'.result = "InvalidFace"
                   /\ reader'.mesh = reader.mesh
              ELSE /\ reader'.result = "reading"
                   /\ soup_n_faces(reader'.mesh) = n + 1
                   /\ soup_face(reader'.mesh, n).vertices =
                          [k \in 1..Len(data) |->
                              digits_value(index_part(data[k]), 0) - 1]
      ]_vars

\* ================================================================== bounds
\* HeMesh::bounds (src/src/mesh/half_edge.rs) and Aabb::from_bounds, min and
\* max (src/src/geometry/aabb.rs), computed on f64 values.

\* Vertices of a soup whose mesh bounds() is called on.
MaxPoints == 3

\* Vertex positions: even coordinates, so that the halving in from_bounds
\* is exact; every axis has positions below and above the first one.
PointChoices == { <<0, 0, 0>>, <<2, 2, 2>>, <<-2, 4, 0>>, <<4, -2, 2>> }

\* An f64 is a finite number, one of the infinities or NaN.
Num(v) == [k |-> "num", v |-> v]

INFINITY == [k |-> "inf", v |-> 0]

NEG_INFINITY == [k |-> "ninf", v |-> 0]

NAN == [k |-> "nan", v |-> 0]

f64_rank(a) == CASE a.k = "ninf" -> -1 [] a.k = "inf" -> 1 [] OTHER -> 0

\* a < b; false when either side is NaN.
f64_lt(a, b) ==
    /\ a.k # "nan"
    /\ b.k # "nan"
    /\ \/ f64_rank(a) < f64_rank(b)
       \/ a.k = "num" /\ b.k = "num" /\ a.v < b.v

\* a > b
f64_gt(a, b) == f64_lt(b, a)

\* a + b; the sum of opposite infinities is NaN.
f64_add(a, b) ==
    IF a.k = "nan" \/ b.k = "nan" THEN NAN
    ELSE IF a.k = "num" /\ b.k = "num" THEN Num(a.v + b.v)
    ELSE IF a.k = "num" THEN b
    ELSE IF b.k = "num" \/ a.k = b.k THEN a
    ELSE NAN

f64_neg(a) ==
    CASE a.k = "num" -> Num(0 - a.v)
      [] a.k = "inf" -> NEG_INFINITY
      [] a.k = "ninf" -> INFINITY
      [] OTHER -> NAN

\* a - b
f64_sub(a, b) == f64_add(a, f64_neg(b))

\* a * 0.5
f64_half(a) == IF a.k = "num" THEN Num(a.v \div 2) ELSE a

\* Aabb::from_bounds
Aabb_from_bounds(min, max) ==
    Aabb_new([i \in 1..3 |-> f64_half(f64_add(min[i], max[i]))],
             [i \in 1..3 |-> f64_half(f64_sub(max[i], min[i]))])

\* Aabb::min and Aabb::max of a box of f64 values.
Aabb_min_f64(a) == [i \in 1..3 |-> f64_sub(a.center[i], a.halfsize[i])]

Aabb_max_f64(a) == [i \in 1..3 |-> f64_add(a.center[i], a.halfsize[i])]

\* The vertex loop of bounds(): per axis, a coordinate below min replaces
\* min, else a coordinate above max replaces max.
RECURSIVE bounds_loop(_, _, _, _)
bounds_loop(vertices, v, min, max) ==
    IF v = Len(vertices) THEN [min |-> min, max |-> max]
    ELSE LET origin == [i \in 1..3 |-> Num(At(vertices, v).origin[i])]
         IN  bounds_loop(vertices, v + 1,
                 [i \in 1..3 |-> IF f64_lt(origin[i], min[i])
                                 THEN origin[i] ELSE min[i]],
                 [i \in 1..3 |-> IF /\ ~f64_lt(origin[i], min[i])
                                    /\ f64_gt(origin[i], max[i])
                                 THEN origin[i] ELSE max[i]])

\* HeMesh::bounds
bounds(m) ==
    LET r == bounds_loop(m.vertices, 0,
                         [i \in 1..3 |-> INFINITY],
                         [i \in 1..3 |-> NEG_INFINITY])
    IN  Aabb_from_bounds(r.min, r.max)

\* ---------------------------------------------------------- bounds machine
InitBounds ==
    /\ InitOctreeIdle
    /\ InitReaderIdle
    /\ soup = PolygonSoup_new
    /\ mesh = HeMesh_default
    /\ status = "soup"
    /\ op = [name |-> "none"]
    /\ flips = 0
    /\ merges = 0

\* PolygonSoup::insert_vertex
SoupInsertVertex ==
    /\ status = "soup"
    /\ Len(soup.vertices) < MaxPoints
    /\ \E position \in PointChoices :
          soup' = soup_insert_vertex(soup, position)
    /\ UNCHANGED <<mesh, status, op, flips, merges, octVars, objVars>>

\* mesh.bounds()
Bounds ==
    /\ status = "Ok"
    /\ op.name # "bounds"
    /\ op' = [name |-> "bounds", value |-> bounds(mesh)]
    /\ UNCHANGED <<soup, mesh, status, flips, merges, octVars, objVars>>

NextBounds ==
    \/ SoupInsertVertex
    \/ New
    \/ Bounds

SpecBounds == InitBounds /\ [][NextBounds]_vars

\* ----------------------------------------------------------- bounds claims
\* The least and the greatest coordinate of the vertex origins on axis i.
LeastOrigin(i) ==
    CHOOSE x \in {mesh.vertices[v].origin[i] : v \in 1..Len(mesh.vertices)} :
        \A w \in 1..Len(mesh.vertices) : x <= mesh.vertices[w].origin[i]

GreatestOrigin(i) ==
    CHOOSE x \in {mesh.vertices[v].origin[i] : v \in 1..Len(mesh.vertices)} :
        \A w \in 1..Len(mesh.vertices) : x >= mesh.vertices[w].origin[i]

\* C24: on a mesh with at least one vertex, whatever the order of the
\* vertex array, the box returned by bounds() has the component-wise
\* minimum of the vertex origins as min and their maximum as max.
C24_BoundsOfOrigins ==
    (op.name = "bounds" /\ Len(mesh.vertices) >= 1) =>
        /\ Aabb_min_f64(op.value) = [i \in 1..3 |-> Num(LeastOrigin(i))]
        /\ Aabb_max_f64(op.value) = [i \in 1..3 |-> Num(GreatestOrigin(i))]

\* ====================================================== sphere and point
\* src/src/geometry/collision/intersects/sphere_vector3.rs on integer
\* coordinates.

\* Greatest radius of a sphere.
MaxRadius == 3

\* Vector3 - Vector3
Vector3_sub(u, v) == [i \in 1..3 |-> u[i] - v[i]]

\* Vector3::dot
Vector3_dot(u, v) == u[1] * v[1] + u[2] * v[2] + u[3] * v[3]

\* u.mag() <= bound, with mag() the square root of dot(u, u): the root is
\* monotone, so it is at most bound exactly when bound is not negative and
\* dot(u, u) is at most bound squared.
mag_le(u, bound) == bound >= 0 /\ Vector3_dot(u, u) <= bound * bound

\* Sphere::new
Sphere_new(center, radius) == [center |-> center, radius |-> radius]

intersects_sphere_vector3(s, v) ==
    mag_le(Vector3_sub(v, s.center), s.radius * s.radius)

\* impl Intersects<Vector3> for Sphere
Sphere_intersects_Vector3(s, v) == intersects_sphere_vector3(s, v)

\* impl Intersects<Sphere> for Vector3
Vector3_intersects_Sphere(v, s) == intersects_sphere_vector3(s, v)

\* Centres of the spheres and points tested against them: at distance 0,
\* 1, 3 and more from a centre.
CenterChoices == { <<0, 0, 0>>, <<2, 2, 2>> }

TestPoints == PointChoices \cup { <<1, 0, 0>>, <<3, 0, 0>> }

InitSphere ==
    /\ InitOctreeIdle
    /\ InitReaderIdle
    /\ soup = PolygonSoup_new
    /\ mesh = HeMesh_default
    /\ status = "input"
    /\ flips = 0
    /\ merges = 0
    /\ \E c \in CenterChoices, r \in 0..MaxRadius, v \in TestPoints :
          op = [name |-> "input", sphere |-> Sphere_new(c, r), point |-> v]

\* sphere.intersects(&point)
SphereIntersects ==
    /\ status = "input"
    /\ op.name = "input"
    /\ op' = [name |-> "sphere_intersects", sphere |-> op.sphere,
              point |-> op.point,
              value |-> Sphere_intersects_Vector3(op.sphere, op.point)]
    /\ status' = "Ok"
    /\ UNCHANGED <<soup, mesh, flips, merges, octVars, objVars>>

\* point.intersects(&sphere)
PointIntersects ==
    /\ status = "input"
    /\ op.name = "input"
    /\ op' = [name |-> "point_intersects", sphere |-> op.sphere,
              point |-> op.point,
              value |-> Vector3_intersects_Sphere(op.point, op.sphere)]
    /\ status' = "Ok"
    /\ UNCHANGED <<soup, mesh, flips, merges, octVars, objVars>>

NextSphere ==
    \/ SphereIntersects
    \/ PointIntersects

SpecSphere == InitSphere /\ [][NextSphere]_vars

\* The squared distance of the tested point from the centre of the sphere.
SquaredDistance ==
    LET d == Vector3_sub(op.point, op.sphere.center) IN Vector3_dot(d, d)

\* C25: either call reports an intersection exactly when the squared
\* distance of the point from the centre is at most the squared radius, and
\* the two calls agree.
C25_SphereHoldsPoint ==
    op.name \in {"sphere_intersects", "point_intersects"} =>
        /\ op.value <=>
              SquaredDistance <= op.sphere.radius * op.sphere.radius
        /\ Sphere_intersects_Vector3(op.sphere, op.point) <=>
              Vector3_intersects_Sphere(op.point, op.sphere)

\* =================================================== triangle and triangle
\* src/src/geometry/collision/intersects/triangle_triangle.rs on integer
\* coordinates: normals are unnormalised cross products, so every quantity
\* of the test is an integer and the arithmetic is exact.  A triangle is
\* the triple of its vertices; vector components keep the 0-based indices
\* of the source through At.

\* Vector3::cross
Vector3_cross(u, v) ==
    << u[2] * v[3] - u[3] * v[2],
       u[3] * v[1] - u[1] * v[3],
       u[1] * v[2] - u[2] * v[1] >>

\* Vector3::abs
Vector3_abs(u) == [i \in 1..3 |-> IF u[i] < 0 THEN 0 - u[i] ELSE u[i]]

\* Vector3::max_index
max_index(u) ==
    LET first == IF u[2] > u[1] THEN 1 ELSE 0
    IN  IF u[3] > At(u, first) THEN 2 ELSE first

\* Triangle::normal
Triangle_normal(t) ==
    Vector3_cross(Vector3_sub(t[2], t[1]), Vector3_sub(t[3], t[1]))

\* Signed distances of the vertices of t from the plane of s.
plane_distances(s, t) ==
    LET n == Triangle_normal(s)
        d == 0 - Vector3_dot(n, s[1])
    IN  [i \in 1..3 |-> Vector3_dot(n, t[i]) + d]

\* if d < EPSILON { 0. } else { d }: EPSILON lies strictly between 0 and 1
\* and the distances are integers, so d < EPSILON reads d < 1.
snap(d) == IF d < 1 THEN 0 ELSE d

compute_interval(vv, d0, d1, d2, d0d1, d0d2) ==
    IF d0d1 > 0
    THEN [a |-> vv[3], b |-> (vv[1] - vv[3]) * d2, c |-> (vv[2] - vv[3]) * d2,
          x0 |-> d2 - d0, x1 |-> d2 - d1, coplanar |-> FALSE]
    ELSE IF d0d2 > 0
    THEN [a |-> vv[2], b |-> (vv[1] - vv[2]) * d1, c |-> (vv[3] - vv[2]) * d1,
          x0 |-> d1 - d0, x1 |-> d1 - d2, coplanar |-> FALSE]
    ELSE IF d1 * d2 > 0 \/ d0 # 0
    THEN [a |-> vv[1], b |-> (vv[2] - vv[1]) * d0, c |-> (vv[3] - vv[1]) * d0,
          x0 |-> d0 - d1, x1 |-> d0 - d2, coplanar |-> FALSE]
    ELSE IF d1 # 0
    THEN [a |-> vv[2], b |-> (vv[1] - vv[2]) * d1, c |-> (vv[3] - vv[2]) * d1,
          x0 |-> d1 - d0, x1 |-> d1 - d2, coplanar |-> FALSE]
    ELSE IF d2 # 0
    THEN [a |-> vv[3], b |-> (vv[1] - vv[3]) * d2, c |-> (vv[2] - vv[3]) * d2,
          x0 |-> d2 - d0, x1 |-> d2 - d1, coplanar |-> FALSE]
    ELSE [a |-> 0, b |-> 0, c |-> 0, x0 |-> 0, x1 |-> 0, coplanar |-> TRUE]

edge_edge_test(v0, u0, u1, ax, ay, i0, i1) ==
    LET bx == At(u0, i0) - At(u1, i0)
        by == At(u0, i1) - At(u1, i1)
        cx == At(v0, i0) - At(u0, i0)
        cy == At(v0, i1) - At(u0, i1)
        f == ay * bx - ax * by
        d == by * cx - bx * cy
        e == ax * cy - ay * cx
    IN  /\ (f > 0 /\ d >= 0 /\ d <= f) \/ (f < 0 /\ d <= 0 /\ d >= f)
        /\ IF f > 0 THEN e >= 0 /\ e <= f ELSE e <= 0 /\ e >= f

edge_against_tri_edges(v0, v1, u0, u1, u2, i0, i1) ==
    LET ax == At(v1, i0) - At(v0, i0)
        ay == At(v1, i1) - At(v0, i1)
    IN  \/ edge_edge_test(v0, u0, u1, ax, ay, i0, i1)
        \/ edge_edge_test(v0, u1, u2, ax, ay, i0, i1)
        \/ edge_edge_test(v0, u2, u0, ax, ay, i0, i1)

point_in_tri(v0, u0, u1, u2, i0, i1) ==
    LET a0 == At(u1, i1) - At(u0, i1)
        b0 == 0 - (At(u1, i0) - At(u0, i0))
        c0 == (0 - a0) * At(u0, i0) - b0 * At(u0, i1)
        d0 == a0 * At(v0, i0) + b0 * At(v0, i1) + c0
        a1 == At(u2, i1) - At(u1, i1)
        b1 == 0 - (At(u2, i0) - At(u1, i0))
        c1 == (0 - a1) * At(u1, i0) - b1 * At(u1, i1)
        d1 == a1 * At(v0, i0) + b1 * At(v0, i1) + c1
        a2 == At(u0, i1) - At(u2, i1)
        b2 == 0 - (At(u0, i0) - At(u2, i0))
        c2 == (0 - a2) * At(u2, i0) - b2 * At(u2, i1)
        d2 == a2 * At(v0, i0) + b2 * At(v0, i1) + c2
    IN  d0 * d1 > 0 /\ d0 * d2 > 0

coplanar_tri_tri(n, v0, v1, v2, u0, u1, u2) ==
    LET a == Vector3_abs(n)
        i0 == IF a[1] > a[2] /\ a[1] > a[3] THEN 1 ELSE 0
        i1 == IF a[1] > a[2]
              THEN (IF a[1] > a[3] THEN 2 ELSE 1)
              ELSE (IF a[3] > a[2] THEN 1 ELSE 2)
    IN  \/ edge_against_tri_edges(v0, v1, u0, u1, u2, i0, i1)
        \/ edge_against_tri_edges(v1, v2, u0, u1, u2, i0, i1)
        \/ edge_against_tri_edges(v2, v0, u0, u1, u2, i0, i1)
        \/ point_in_tri(v0, u0, u1, u2, i0, i1)
        \/ point_in_tri(u0, v0, v1, v2, i0, i1)

intersects_triangle_triangle(t1, t2) ==
    LET n1 == Triangle_normal(t1)
        raw_u == plane_distances(t1, t2)
        du0 == snap(raw_u[1])
        du1 == snap(raw_u[2])
        du2 == snap(raw_u[3])
        du0du1 == du0 * du1
        du0du2 == du0 * du2
        n2 == Triangle_normal(t2)
        raw_v == plane_distances(t2, t1)
        dv0 == snap(raw_v[1])
        dv1 == snap(raw_v[2])
        dv2 == snap(raw_v[3])
        dv0dv1 == dv0 * dv1
        dv0dv2 == dv0 * dv2
        index == max_index(Vector3_abs(Vector3_cross(n1, n2)))
        vp == <<At(t1[1], index), At(t1[2], index), At(t1[3], index)>>
        up == <<At(t2[1], index), At(t2[2], index), At(t2[3], index)>>
        interval1 == compute_interval(vp, dv0, dv1, dv2, dv0dv1, dv0dv2)
        interval2 == compute_interval(up, du0, du1, du2, du0du1, du0du2)
        xx == interval1.x0 * interval1.x1
        yy == interval2.x0 * interval2.x1
        xxyy == xx * yy
        tmp1 == interval1.a * xxyy
        a10 == tmp1 + interval1.b * interval1.x1 * yy
        a11 == tmp1 + interval1.c * interval1.x0 * yy
        i10 == Min2(a10, a11)
        i11 == Max2(a10, a11)
        tmp2 == interval2.a * xxyy
        a20 == tmp2 + interval2.b * xx * interval2.x1
        a21 == tmp2 + interval2.c * xx * interval2.x0
        i20 == Min2(a20, a21)
        i21 == Max2(a20, a21)
    IN  IF du0du1 > 0 /\ du0du2 > 0 THEN FALSE
        ELSE IF dv0dv1 > 0 /\ dv0dv2 > 0 THEN FALSE
        ELSE IF interval1.coplanar \/ interval2.coplanar
        THEN coplanar_tri_tri(n1, t1[1], t1[2], t1[3], t2[1], t2[2], t2[3])
        ELSE ~(i11 < i20 \/ i21 < i10)

\* Triangles tested: one in the plane z = 0 in both windings, its copies
\* two units above and below in both windings, a triangle that passes
\* through it, one that only touches its plane from above and one that
\* stays away from it on the side of its first edge.
TriangleChoices ==
    { << <<0, 0, 0>>, <<2, 0, 0>>, <<2, 2, 0>> >>,
      << <<0, 0, 0>>, <<2, 2, 0>>, <<2, 0, 0>> >>,
      << <<0, 0, 2>>, <<2, 0, 2>>, <<2, 2, 2>> >>,
      << <<0, 0, 2>>, <<2, 2, 2>>, <<2, 0, 2>> >>,
      << <<0, 0, -2>>, <<2, 0, -2>>, <<2, 2, -2>> >>,
      << <<0, 0, -2>>, <<2, 2, -2>>, <<2, 0, -2>> >>,
      << <<1, 0, -2>>, <<1, 0, 2>>, <<1, 2, 2>> >>,
      << <<1, 0, 0>>, <<1, 0, 2>>, <<1, 2, 2>> >>,
      << <<0, -4, -1>>, <<2, -4, -1>>, <<2, -2, 1>> >>,
      << <<0, -4, -1>>, <<2, -2, 1>>, <<2, -4, -1>> >> }

InitTriangle ==
    /\ InitOctreeIdle
    /\ InitReaderIdle
    /\ soup = PolygonSoup_new
    /\ mesh = HeMesh_default
    /\ status = "input"
    /\ flips = 0
    /\ merges = 0
    /\ \E t1 \in TriangleChoices, t2 \in TriangleChoices :
          op = [name |-> "input", t1 |-> t1, t2 |-> t2]

\* t1.intersects(&t2)
TriangleIntersects ==
    /\ status = "input"
    /\ op.name = "input"
    /\ op' = [name |-> "triangle_intersects", t1 |-> op.t1, t2 |-> op.t2,
              value |-> intersects_triangle_triangle(op.t1, op.t2)]
    /\ status' = "Ok"
    /\ UNCHANGED <<soup, mesh, flips, merges, octVars, objVars>>

NextTriangle == TriangleIntersects

SpecTriangle == InitTriangle /\ [][NextTriangle]_vars

\* All three vertices of t lie strictly on one side of the plane of s.
StrictlyOneSide(s, t) ==
    LET d == plane_distances(s, t)
    IN  \/ \A i \in 1..3 : d[i] > 0
        \/ \A i \in 1..3 : d[i] < 0

\* C26: a signed plane distance is snapped to 0 only when its absolute
\* value is below EPSILON; the test answers false whenever one triangle
\* lies strictly on one side of the other's plane, the negative side as
\* well as the positive one; the answer does not depend on the order of
\* the two triangles.
C26_PlaneTestBothSides ==
    op.name = "triangle_intersects" =>
        /\ \A i \in 1..3 :
              LET d == plane_distances(op.t1, op.t2)[i]
              IN  d # 0 => snap(d) = d
        /\ (StrictlyOneSide(op.t1, op.t2) \/ StrictlyOneSide(op.t2, op.t1))
              => ~op.value
        /\ op.value <=> intersects_triangle_triangle(op.t2, op.t1)

====
